---- MODULE Spec2Model ----
(***************************************************************************)
(* Model of the CNIC text reconciliation code: the strict parser           *)
(* app/utils/parser_v2.py (CNICParser) and the lenient parser              *)
(* app/utils/parser.py (parse_cnic_fields), and the endpoints of           *)
(* app/routes/extraction.py that call them.                                *)
(*                                                                         *)
(* Spec runs both parsers step by step over lists of OCR regions,          *)
(* SpecSplit over cards whose labels and values are separate regions,      *)
(* SpecUnit calls single methods of CNICParser, SpecConcurrent interleaves *)
(* the steps of several calls, SpecEndpoint runs /extract and              *)
(* /extract-json from the request to the response.                         *)
(*                                                                         *)
(* Texts are TLA+ strings handled character by character.  Offsets are     *)
(* 0-based as in Python; s[a:b] is Slice(s, a, b).  The input alphabet is  *)
(* letters, digits, the space and the punctuation . - / : ' so \s is the   *)
(* space and \w is a letter or a digit.  The operators of the first        *)
(* section are Python's own str and re primitives, written out character   *)
(* by character.                                                           *)
(***************************************************************************)
EXTENDS Integers, Sequences, FiniteSets, TLC

\* ------------------------------------------------------------------------
\* Python str primitives
\* ------------------------------------------------------------------------

UpperLetters == "ABCDEFGHIJKLMNOPQRSTUVWXYZ"
LowerLetters == "abcdefghijklmnopqrstuvwxyz"
Digits == "0123456789"

\* Python's None; "" is a different (also falsy) value.
None == "<None>"

Falsy(v) == v = None \/ v = ""

Min(S) == CHOOSE x \in S : \A y \in S : x <= y

Max(S) == CHOOSE x \in S : \A y \in S : x >= y

\* s[i] for 0 <= i < len(s), "" outside
Ch(s, i) == IF i >= 0 /\ i < Len(s) THEN SubSeq(s, i + 1, i + 1) ELSE ""

\* s[a:b] for 0 <= a, b
Slice(s, a, b) ==
  LET hi == IF b > Len(s) THEN Len(s) ELSE b
  IN IF a >= hi THEN "" ELSE SubSeq(s, a + 1, hi)

\* s[a:]
From(s, a) == Slice(s, a, Len(s))

\* s.find(sub, start): lowest offset >= start where sub occurs, -1 if none
FindFrom(s, sub, start) ==
  LET Lowest(S) == IF S = {} THEN -1 ELSE Min(S)
  IN Lowest({i \in start..(Len(s) - Len(sub)) : SubSeq(s, i + 1, i + Len(sub)) = sub})

\* s.find(sub)
Find(s, sub) == FindFrom(s, sub, 0)

\* sub in s
Contains(s, sub) == Find(s, sub) >= 0

UpperSet == {Ch(UpperLetters, n) : n \in 0..25}
LowerSet == {Ch(LowerLetters, n) : n \in 0..25}
DigitSet == {Ch(Digits, n) : n \in 0..9}
AlphaSet == UpperSet \cup LowerSet
WordSet == AlphaSet \cup DigitSet \cup {"_"}

IsAlphaCh(c) == c \in AlphaSet
IsDigitCh(c) == c \in DigitSet
IsSpaceCh(c) == c = " "
\* \w of the regex engine
IsWordCh(c) == c \in WordSet

ToLower == [c \in UpperSet |-> Ch(LowerLetters, Find(UpperLetters, c))]
ToUpper == [c \in LowerSet |-> Ch(UpperLetters, Find(LowerLetters, c))]

LowerCh(c) == IF c \in UpperSet THEN ToLower[c] ELSE c
UpperCh(c) == IF c \in LowerSet THEN ToUpper[c] ELSE c

\* s[a:b].lower(), character by character, the range halved at each step
RECURSIVE MapLower(_, _, _)
MapLower(s, a, b) ==
  IF a >= b THEN ""
  ELSE IF b = a + 1 THEN LowerCh(Ch(s, a))
  ELSE MapLower(s, a, (a + b) \div 2) \o MapLower(s, (a + b) \div 2, b)

\* s.lower()
Lower(s) == MapLower(s, 0, Len(s))

RECURSIVE MapUpper(_, _, _)
MapUpper(s, a, b) ==
  IF a >= b THEN ""
  ELSE IF b = a + 1 THEN UpperCh(Ch(s, a))
  ELSE MapUpper(s, a, (a + b) \div 2) \o MapUpper(s, (a + b) \div 2, b)

\* s.upper()
Upper(s) == MapUpper(s, 0, Len(s))

\* s.title(): a letter that follows a non-letter is upper-cased, any other
\* letter lower-cased.
RECURSIVE TitleRange(_, _, _)
TitleRange(s, a, b) ==
  IF a >= b THEN ""
  ELSE IF b = a + 1
  THEN (IF IsAlphaCh(Ch(s, a - 1)) THEN LowerCh(Ch(s, a)) ELSE UpperCh(Ch(s, a)))
  ELSE TitleRange(s, a, (a + b) \div 2) \o TitleRange(s, (a + b) \div 2, b)

Title(s) == TitleRange(s, 0, Len(s))

\* number of leading / trailing characters of s that satisfy \s
LeadingSpaces(s) == Min({i \in 0..Len(s) : ~IsSpaceCh(Ch(s, i))})

TrailingSpaces(s) == Min({i \in 0..Len(s) : ~IsSpaceCh(Ch(s, Len(s) - 1 - i))})

\* s.strip()
Strip(s) ==
  LET a == LeadingSpaces(s)
  IN IF a = Len(s) THEN "" ELSE Slice(s, a, Len(s) - TrailingSpaces(s))

\* s.replace(old, new), old non-empty: every non-overlapping occurrence,
\* left to right
RECURSIVE Replace(_, _, _)
Replace(s, old, new) ==
  LET i == Find(s, old)
  IN IF i < 0 THEN s
     ELSE Slice(s, 0, i) \o new \o Replace(From(s, i + Len(old)), old, new)

\* s.count(sub), sub non-empty: non-overlapping occurrences
RECURSIVE Count(_, _)
Count(s, sub) ==
  LET i == Find(s, sub)
  IN IF i < 0 THEN 0 ELSE 1 + Count(From(s, i + Len(sub)), sub)

\* s.split(): the maximal runs of non-space characters
RECURSIVE Split(_)
Split(s) ==
  LET t == From(s, LeadingSpaces(s))
  IN IF t = "" THEN <<>>
     ELSE LET sp == Find(t, " ")
              e == IF sp < 0 THEN Len(t) ELSE sp
          IN <<Slice(t, 0, e)>> \o Split(From(t, e))

\* sep.join(words)
RECURSIVE Join(_, _)
Join(sep, words) ==
  IF words = <<>> THEN ""
  ELSE IF Len(words) = 1 THEN words[1]
  ELSE words[1] \o sep \o Join(sep, Tail(words))

\* character classes of the regular expressions: \d, \s, [A-Za-z],
\* [A-Za-z ], [^\d]
InClass(c, cls) ==
  CASE cls = "digit" -> IsDigitCh(c)
    [] cls = "space" -> IsSpaceCh(c)
    [] cls = "alpha" -> IsAlphaCh(c)
    [] cls = "alphaspace" -> IsAlphaCh(c) \/ c = " "
    [] cls = "nondigit" -> c # "" /\ ~IsDigitCh(c)

\* the number of leading characters of s[i:] that are in the class
Run(s, i, cls) ==
  IF i >= Len(s) THEN 0
  ELSE Min({j \in i..Len(s) : ~InClass(Ch(s, j), cls)}) - i

\* every character of s is in the class
AllIn(s, cls) == Run(s, 0, cls) = Len(s)

\* s.isalpha()
IsAlpha(s) == s # "" /\ AllIn(s, "alpha")

\* \b at offset i of s
WordBoundary(s, i) == IsWordCh(Ch(s, i - 1)) # IsWordCh(Ch(s, i))

\* s[i : i + len(lit)].lower() == lit, for a lower-case literal
StartsAtI(s, lit, i) ==
  /\ i >= 0
  /\ i + Len(lit) <= Len(s)
  /\ Lower(SubSeq(s, i + 1, i + Len(lit))) = lit

\* the offset after an optional single character of opt at offset i
SkipOpt(s, i, opt) == IF Ch(s, i) # "" /\ Contains(opt, Ch(s, i)) THEN i + 1 ELSE i

\* \d{n} at offset i
DigitsAt(s, i, n) == Run(s, i, "digit") >= n

\* the integer a string of digits denotes
RECURSIVE ToInt(_)
ToInt(s) ==
  IF s = "" THEN 0
  ELSE 10 * ToInt(Slice(s, 0, Len(s) - 1)) + Find(Digits, Ch(s, Len(s) - 1))

\* list.sort() of (offset, value) pairs: insertion by offset.  Two pairs
\* of one list with the same offset are the same pair, so the order of
\* the second components never decides.
RECURSIVE InsertByPos(_, _)
InsertByPos(sorted, x) ==
  IF sorted = <<>> THEN <<x>>
  ELSE IF x[1] < sorted[1][1] THEN <<x>> \o sorted
  ELSE <<sorted[1]>> \o InsertByPos(Tail(sorted), x)

RECURSIVE SortByPos(_)
SortByPos(list) ==
  IF list = <<>> THEN <<>>
  ELSE InsertByPos(SortByPos(SubSeq(list, 1, Len(list) - 1)), list[Len(list)])

\* ------------------------------------------------------------------------
\* Regular expressions.  The table of a pattern over s maps every offset i
\* of s to the offset just after the match of the pattern that starts at
\* i, or to -1 when the pattern does not match there.  Every pattern below
\* is deterministic under the engine's greedy rules unless its comment says
\* otherwise.
\* ------------------------------------------------------------------------

\* the offset after \s* at offset i
SkipSpaces(s, i) == i + Run(s, i, "space")

\* the offset after \s*:?\s* at offset i
LabelTailEnd(s, i) == SkipSpaces(s, SkipOpt(s, SkipSpaces(s, i), ":"))

\* \d{2}[./-]\d{2}[./-]\d{4} at offset i
DateAt(s, i) ==
  /\ i + 10 <= Len(s)
  /\ DigitsAt(s, i, 2)
  /\ Contains("./-", Ch(s, i + 2))
  /\ DigitsAt(s, i + 3, 2)
  /\ Contains("./-", Ch(s, i + 5))
  /\ DigitsAt(s, i + 6, 4)

\* \d{2}[./-]\d{2}[./-]\d{4}
DateMatches(s) == [i \in 0..Len(s) |-> IF DateAt(s, i) THEN i + 10 ELSE -1]

\* \b\d{2}[./-]\d{2}[./-]\d{4}\b
BoundedDateMatches(s) ==
  [i \in 0..Len(s) |->
     IF WordBoundary(s, i) /\ DateAt(s, i) /\ WordBoundary(s, i + 10)
     THEN i + 10 ELSE -1]

\* \b(\d{5}[-\s]?\d{7}[-\s]?\d)\b
IdentityMatches(s) ==
  [i \in 0..Len(s) |->
     LET j == SkipOpt(s, i + 5, "- ")
         k == SkipOpt(s, j + 7, "- ")
     IN IF /\ WordBoundary(s, i)
           /\ DigitsAt(s, i, 5)
           /\ DigitsAt(s, j, 7)
           /\ DigitsAt(s, k, 1)
           /\ WordBoundary(s, k + 1)
        THEN k + 1 ELSE -1]

\* (?i)father'?s?\s+name\s*:?\s*
FatherNameLabelMatches(s) ==
  [i \in 0..Len(s) |->
     LET a == SkipOpt(s, SkipOpt(s, i + 6, "'"), "sS")
         b == SkipSpaces(s, a)
     IN IF StartsAtI(s, "father", i) /\ b > a /\ StartsAtI(s, "name", b)
        THEN LabelTailEnd(s, b + 4) ELSE -1]

\* (?i)^name\s*:?\s*
NameLabelMatches(s) ==
  [i \in 0..Len(s) |->
     IF i = 0 /\ StartsAtI(s, "name", 0) THEN LabelTailEnd(s, 4) ELSE -1]

HeaderWords == <<"pakistan", "national", "identity", "card", "islamic", "republic">>

\* (?i)\b(pakistan|national|identity|card|islamic|republic)\b: the first
\* alternative, in the pattern's order, that matches with a boundary after
HeaderWordMatches(s) ==
  [i \in 0..Len(s) |->
     LET ok == {n \in 1..Len(HeaderWords) :
                  /\ StartsAtI(s, HeaderWords[n], i)
                  /\ WordBoundary(s, i + Len(HeaderWords[n]))}
     IN IF WordBoundary(s, i) /\ ok # {} THEN i + Len(HeaderWords[Min(ok)]) ELSE -1]

\* (?i)country\s*of\s*stay\s*:?\s*
CountryOfStayLabelMatches(s) ==
  [i \in 0..Len(s) |->
     LET a == SkipSpaces(s, i + 7)
         b == SkipSpaces(s, a + 2)
     IN IF StartsAtI(s, "country", i) /\ StartsAtI(s, "of", a) /\ StartsAtI(s, "stay", b)
        THEN LabelTailEnd(s, b + 4) ELSE -1]

\* (?i)country\s*:?\s*
CountryLabelMatches(s) ==
  [i \in 0..Len(s) |->
     IF StartsAtI(s, "country", i) THEN LabelTailEnd(s, i + 7) ELSE -1]

\* \b([MF])\b, with re.IGNORECASE when ignorecase
GenderTokenMatches(s, ignorecase) ==
  [i \in 0..Len(s) |->
     IF /\ Contains(IF ignorecase THEN "MFmf" ELSE "MF", Ch(s, i))
        /\ Ch(s, i) # ""
        /\ WordBoundary(s, i)
        /\ WordBoundary(s, i + 1)
     THEN i + 1 ELSE -1]

\* \d{5}-\d{7}-\d
IdentityDashedMatches(s) ==
  [i \in 0..Len(s) |->
     IF /\ DigitsAt(s, i, 5) /\ Ch(s, i + 5) = "-"
        /\ DigitsAt(s, i + 6, 7) /\ Ch(s, i + 13) = "-"
        /\ DigitsAt(s, i + 14, 1)
     THEN i + 15 ELSE -1]

\* \b\d{13}\b
Digits13Matches(s) ==
  [i \in 0..Len(s) |->
     IF WordBoundary(s, i) /\ DigitsAt(s, i, 13) /\ WordBoundary(s, i + 13)
     THEN i + 13 ELSE -1]

\* \bgender\b, on a lower-cased text
GenderWordMatches(s) ==
  [i \in 0..Len(s) |->
     IF WordBoundary(s, i) /\ StartsAtI(s, "gender", i) /\ WordBoundary(s, i + 6)
     THEN i + 6 ELSE -1]

\* (?i)country\s+of\s+stay\s*:?\s*
CountryOfStayLabelPlusMatches(s) ==
  [i \in 0..Len(s) |->
     LET a == SkipSpaces(s, i + 7)
         b == SkipSpaces(s, a + 2)
     IN IF /\ StartsAtI(s, "country", i) /\ a > i + 7 /\ StartsAtI(s, "of", a)
           /\ b > a + 2 /\ StartsAtI(s, "stay", b)
        THEN LabelTailEnd(s, b + 4) ELSE -1]

\* (?i)\s+Or\s+
OrTokenMatches(s) ==
  [i \in 0..Len(s) |->
     LET a == SkipSpaces(s, i)
         b == SkipSpaces(s, a + 2)
     IN IF a > i /\ StartsAtI(s, "or", a) /\ b > a + 2 THEN b ELSE -1]

split_keywords == {"gender", "country", "date", "identity", "holder"}

\* (?i)\s+(?:gender|country|date|identity|holder): no alternative is a
\* prefix of another, so at most one matches
SplitKeywordMatches(s) ==
  [i \in 0..Len(s) |->
     LET a == SkipSpaces(s, i)
         ok == {kw \in split_keywords : StartsAtI(s, kw, a)}
     IN IF a > i /\ ok # {} THEN a + Len(CHOOSE kw \in ok : TRUE) ELSE -1]

\* (?i)gender\s+([MF])\b
GenderValueMatches(s) ==
  [i \in 0..Len(s) |->
     LET g == SkipSpaces(s, i + 6)
     IN IF /\ StartsAtI(s, "gender", i) /\ g > i + 6
           /\ Ch(s, g) # "" /\ Contains("MFmf", Ch(s, g)) /\ WordBoundary(s, g + 1)
        THEN g + 1 ELSE -1]

\* (?i)^name\b
NameWordMatches(s) ==
  [i \in 0..Len(s) |->
     IF i = 0 /\ StartsAtI(s, "name", 0) /\ WordBoundary(s, 4) THEN 4 ELSE -1]

\* (?i)name\s*:
NameColonMatches(s) ==
  [i \in 0..Len(s) |->
     LET c == SkipSpaces(s, i + 4)
     IN IF StartsAtI(s, "name", i) /\ Ch(s, c) = ":" THEN c + 1 ELSE -1]

\* re.search(pattern, s).start() for the pattern's table over s, -1 when
\* there is no match
SearchStart(ends) ==
  LET S == {i \in DOMAIN ends : ends[i] >= 0}
  IN IF S = {} THEN -1 ELSE Min(S)

\* re.search(pattern, s).group(), None when there is no match
SearchGroup(ends, s) ==
  LET Group(i) == IF i < 0 THEN None ELSE Slice(s, i, ends[i])
  IN Group(SearchStart(ends))

\* re.findall / re.sub scan: non-overlapping matches, left to right
\* the offset of the first match at or after offset i, -1 when there is none
NextMatch(ends, s, i) ==
  LET Lowest(S) == IF S = {} THEN -1 ELSE Min(S)
  IN Lowest({j \in i..(Len(s) - 1) : ends[j] > j})

RECURSIVE FindAllFrom(_, _, _)
FindAllFrom(ends, s, i) ==
  LET Rest(j) ==
        IF j < 0 THEN <<>>
        ELSE <<Slice(s, j, ends[j])>> \o FindAllFrom(ends, s, ends[j])
  IN Rest(NextMatch(ends, s, i))

\* re.findall(pattern, s)
FindAll(ends, s) == FindAllFrom(ends, s, 0)

RECURSIVE SubFrom(_, _, _, _)
SubFrom(ends, repl, s, i) ==
  LET Rest(j) ==
        IF j < 0 THEN From(s, i)
        ELSE Slice(s, i, j) \o repl \o SubFrom(ends, repl, s, ends[j])
  IN Rest(NextMatch(ends, s, i))

\* re.sub(pattern, repl, s)
Sub(ends, repl, s) == SubFrom(ends, repl, s, 0)

\* ------------------------------------------------------------------------
\* The record of eight optional fields (both parsers)
\* ------------------------------------------------------------------------

Fields == <<"name", "father_name", "gender", "country_of_stay",
            "identity_number", "date_of_birth", "date_of_issue", "date_of_expiry">>

FieldSet == {Fields[n] : n \in 1..Len(Fields)}

EmptyRecord == [f \in FieldSet |-> None]

\* "if cond and not rec[f]: rec[f] = val": the dict afterwards
SetIfUnset(rec, f, cond, val) ==
  IF cond /\ Falsy(rec[f]) THEN [rec EXCEPT ![f] = val] ELSE rec

\* "if cond and not rec[f]: m = ...; if m: rec[f] = value of m": the dict
\* afterwards, val being None when there is no match
FillIfFound(rec, f, cond, val) == SetIfUnset(rec, f, cond /\ val # None, val)

\* "m = ...; if m: rec[f] = value of m": the dict afterwards
AssignIfFound(rec, f, val) == IF val # None THEN [rec EXCEPT ![f] = val] ELSE rec

\* f"{digits[:5]}-{digits[5:12]}-{digits[12]}"
DashedForm(digits) ==
  Slice(digits, 0, 5) \o "-" \o Slice(digits, 5, 12) \o "-" \o Ch(digits, 12)

\* ------------------------------------------------------------------------
\* Strict parser: CNICParser (app/utils/parser_v2.py)
\* ------------------------------------------------------------------------

typo_corrections == <<
  <<"gende", "gender">>, <<"gendei", "gender">>, <<"gendet", "gender">>,
  <<"fathet", "father">>, <<"lssue", "issue">>, <<"birt", "birth">>,
  <<"expir", "expiry">>, <<"countryofstay", "country of stay">>,
  <<"country ofstay", "country of stay">>, <<"countryof stay", "country of stay">> >>

ignore_words == {
  "pakistan", "national", "identity", "card", "islamic",
  "republic", "holder", "signature", "holders", "no", "text",
  "detected", "of", "the", "date", "name", "father", "gender",
  "country", "stay", "birth", "issue", "expiry", "number" }

valid_countries == {
  "pakistan", "afghanistan", "india", "iran", "china", "saudi arabia",
  "united arab emirates", "uae", "united kingdom", "uk", "united states",
  "usa", "canada", "australia", "turkey", "malaysia", "indonesia" }

\* the loop over typo_corrections of _normalize_text, applied to text_lower
RECURSIVE ApplyTypoCorrections(_, _)
ApplyTypoCorrections(text_lower, n) ==
  IF n > Len(typo_corrections) THEN text_lower
  ELSE ApplyTypoCorrections(
         Replace(text_lower, typo_corrections[n][1], typo_corrections[n][2]), n + 1)

\* _normalize_text: text_lower receives the typo corrections and is then
\* dropped; the value returned is built from text alone.
NormalizeText(text0) ==
  LET text == Strip(text0)
      text_lower == ApplyTypoCorrections(Lower(text), 1)
  IN Join(" ", Split(text))

noise_phrases == {
  "pakistan national identity card", "islamic republic of pakistan",
  "holder's signature", "holder signature", "national identity card",
  "national identity" }

\* _is_meaningful dropping every text that contains a noise phrase
IsMeaningfulBySubstring(text) ==
  LET text_lower == Strip(Lower(text))
  IN /\ ~(Len(text_lower) < 2)
     /\ ~Contains(text_lower, "no text detected")
     /\ \A phrase \in noise_phrases : ~Contains(text_lower, phrase)

\* _is_meaningful
IsMeaningful(text) ==
  LET text_lower == Strip(Lower(text))
  IN /\ ~(Len(text_lower) < 2)
     /\ ~Contains(text_lower, "no text detected")
     /\ text_lower \notin noise_phrases

RECURSIVE SelectNonBlank(_)
SelectNonBlank(texts) ==
  IF texts = <<>> THEN <<>>
  ELSE (IF texts[1] # "" /\ Strip(texts[1]) # ""
        THEN <<NormalizeText(texts[1])>> ELSE <<>>) \o SelectNonBlank(Tail(texts))

\* cleaned_texts of parse
CleanedTexts(texts) == SelectNonBlank(texts)

RECURSIVE SelectMeaningful(_)
SelectMeaningful(texts) ==
  IF texts = <<>> THEN <<>>
  ELSE (IF IsMeaningful(texts[1]) THEN <<texts[1]>> ELSE <<>>)
         \o SelectMeaningful(Tail(texts))

\* filtered_texts of parse
FilteredTexts(texts) == SelectMeaningful(CleanedTexts(texts))

\* _extract_identity_number
ExtractIdentityNumber(text) ==
  LET Formatted(raw) == IF Len(raw) = 13 THEN DashedForm(raw) ELSE None
      OfMatch(m) ==
        IF m # None THEN Formatted(Replace(Replace(m, " ", ""), "-", "")) ELSE None
  IN OfMatch(SearchGroup(IdentityMatches(text), text))

\* d.replace(".", "/") alone
NormalizeDateDotsOnly(d) == Replace(d, ".", "/")

\* d.replace(".", "/").replace("-", "/")
NormalizeDate(d) == Replace(Replace(d, ".", "/"), "-", "/")

RECURSIVE MapNormalizeDate(_)
MapNormalizeDate(ds) ==
  IF ds = <<>> THEN <<>> ELSE <<NormalizeDate(ds[1])>> \o MapNormalizeDate(Tail(ds))

\* the keywords of _extract_dates
date_keywords == <<
  <<"birth", "date_of_birth">>, <<"issue", "date_of_issue">>,
  <<"expiry", "date_of_expiry">> >>

\* keyword_positions before sorting: (offset, field) for every keyword
\* that occurs in text_lower and whose field is still falsy
RECURSIVE KeywordPositions(_, _, _, _)
KeywordPositions(keywords, text_lower, rec, n) ==
  IF n > Len(keywords) THEN <<>>
  ELSE (IF Contains(text_lower, keywords[n][1]) /\ Falsy(rec[keywords[n][2]])
        THEN << <<Find(text_lower, keywords[n][1]), keywords[n][2]>> >>
        ELSE <<>>) \o KeywordPositions(keywords, text_lower, rec, n + 1)

\* [(text.lower().find(d.replace("/", sep)), d) for d in dates if ... >= 0]
RECURSIVE DatePositionsWith(_, _, _)
DatePositionsWith(text_lower, dates, sep) ==
  IF dates = <<>> THEN <<>>
  ELSE LET pos == Find(text_lower, Replace(dates[1], "/", sep))
       IN (IF pos >= 0 THEN << <<pos, dates[1]>> >> ELSE <<>>)
            \o DatePositionsWith(text_lower, Tail(dates), sep)

\* date_positions of _extract_dates: looked up with ".", and only when
\* that list is empty with "-", and only when that is empty too with "/"
DatePositions(text, dates) ==
  LET FirstFound(dot, dash, slash) ==
        IF dot # <<>> THEN dot ELSE IF dash # <<>> THEN dash ELSE slash
  IN FirstFound(DatePositionsWith(Lower(text), dates, "."),
                DatePositionsWith(Lower(text), dates, "-"),
                DatePositionsWith(Lower(text), dates, "/"))

\* the index of the first pair of date_positions after offset kw_pos whose
\* value is not in used_dates, 0 when there is none
FirstDateAfter(date_positions, kw_pos, used_dates) ==
  LET S == {n \in 1..Len(date_positions) :
              /\ date_positions[n][1] > kw_pos
              /\ date_positions[n][2] \notin used_dates}
  IN IF S = {} THEN 0 ELSE Min(S)

\* the matching loop of _extract_dates (and of the lenient multi-field
\* branch): keywords in list order, used_dates a set of date values
RECURSIVE MatchKeywords(_, _, _, _)
MatchKeywords(keyword_positions, date_positions, used_dates, rec) ==
  IF keyword_positions = <<>> THEN rec
  ELSE LET kw == keyword_positions[1]
           n == FirstDateAfter(date_positions, kw[1], used_dates)
       IN IF n = 0
          THEN MatchKeywords(Tail(keyword_positions), date_positions, used_dates, rec)
          ELSE MatchKeywords(Tail(keyword_positions), date_positions,
                             used_dates \cup {date_positions[n][2]},
                             [rec EXCEPT ![kw[2]] = date_positions[n][2]])

\* _extract_dates(text, result): the result dict afterwards
ExtractDates(text, rec) ==
  LET Assigned(found) ==
        IF found = <<>> THEN rec
        ELSE MatchKeywords(
               SortByPos(KeywordPositions(date_keywords, Lower(text), rec, 1)),
               SortByPos(DatePositions(text, MapNormalizeDate(found))), {}, rec)
  IN Assigned(FindAll(BoundedDateMatches(text), text))

\* _extract_gender
ExtractGender(text) ==
  LET Word(c) == IF Upper(c) = "M" THEN "Male" ELSE "Female"
      Decided(text_lower, m, t) ==
        IF (Contains(text_lower, "gender") \/ Contains(text_lower, "gende")) /\ m # None
        THEN Word(m)
        ELSE IF Len(t) = 1 /\ Contains("MFmf", t) THEN Word(t)
        ELSE None
  IN Decided(Lower(text), SearchGroup(GenderTokenMatches(text, TRUE), text), Strip(text))

\* _extract_name
ExtractName(text0, is_father) ==
  LET Checked(text) ==
        IF /\ Len(text) >= 3 /\ Len(text) <= 50 /\ AllIn(text, "alphaspace")
           /\ Len(Split(text)) >= 2
        THEN Title(text) ELSE None
      Unheaded(text) == Strip(Sub(HeaderWordMatches(text), "", text))
  IN Checked(Unheaded(Strip(
       IF is_father THEN Sub(FatherNameLabelMatches(text0), "", text0)
       ELSE Sub(NameLabelMatches(text0), "", text0))))

\* _looks_like_name
LooksLikeName(text) ==
  LET Words(words) ==
        /\ 2 <= Len(words) /\ Len(words) <= 4
        /\ \A n \in 1..Len(words) : IsAlpha(words[n])
  IN Words(Split(text)) /\ 5 <= Len(text) /\ Len(text) <= 40

standalone_skip_keywords ==
  {"father", "name", "gender", "date", "identity", "birth", "issue", "expiry", "country"}

\* potential_names of _extract_standalone_names
RECURSIVE PotentialNames(_)
PotentialNames(texts) ==
  IF texts = <<>> THEN <<>>
  ELSE (IF (\E kw \in standalone_skip_keywords : Contains(Lower(texts[1]), kw))
        THEN <<>>
        ELSE IF LooksLikeName(Strip(texts[1])) THEN <<Title(Strip(texts[1]))>>
        ELSE <<>>)
         \o PotentialNames(Tail(texts))

\* potential_names[n] (1-based), None when the list is shorter
NthOrNone(list, n) == IF Len(list) >= n THEN list[n] ELSE None

\* _extract_standalone_names assigning whether or not the field is set
ExtractStandaloneNamesOverwriting(texts, rec) ==
  LET Assigned(potential_names) ==
        [rec EXCEPT !["father_name"] =
                      IF Len(potential_names) > 0 THEN potential_names[1] ELSE @,
                    !["name"] =
                      IF Len(potential_names) > 1 THEN potential_names[2] ELSE @]
  IN Assigned(PotentialNames(texts))

\* _extract_standalone_names giving the first potential name to name and the
\* second to father_name
ExtractStandaloneNamesNameFirst(texts, rec) ==
  LET Assigned(potential_names) ==
        SetIfUnset(
          SetIfUnset(rec, "name", Len(potential_names) > 0,
                     NthOrNone(potential_names, 1)),
          "father_name", Len(potential_names) > 1, NthOrNone(potential_names, 2))
  IN Assigned(PotentialNames(texts))

\* _extract_standalone_names(texts, result): the result dict afterwards
ExtractStandaloneNames(texts, rec) ==
  LET Assigned(potential_names) ==
        SetIfUnset(
          SetIfUnset(rec, "father_name", Len(potential_names) > 0,
                     NthOrNone(potential_names, 1)),
          "name", Len(potential_names) > 1, NthOrNone(potential_names, 2))
  IN Assigned(PotentialNames(texts))

\* _extract_country
ExtractCountry(text) ==
  LET Checked(cleaned) ==
        IF /\ Contains(Lower(text), "country")
           /\ cleaned # "" /\ Len(cleaned) > 2 /\ IsAlpha(Replace(cleaned, " ", ""))
        THEN Title(cleaned) ELSE None
      Unlabelled(t) == Strip(Sub(CountryLabelMatches(t), "", t))
  IN Checked(Unlabelled(Strip(Sub(CountryOfStayLabelMatches(text), "", text))))

\* _clean_result
CleanResult(rec) ==
  [f \in FieldSet |-> IF ~Falsy(rec[f]) THEN Strip(rec[f]) ELSE rec[f]]

\* the %d directive of strptime: 3[0-1]|[1-2]\d|0[1-9]|[1-9]| [1-9]
DayDirective(p) ==
  \/ Len(p) = 2 /\ AllIn(p, "digit") /\ ToInt(p) >= 1 /\ ToInt(p) <= 31
  \/ Len(p) = 1 /\ AllIn(p, "digit") /\ ToInt(p) >= 1
  \/ Len(p) = 2 /\ Ch(p, 0) = " " /\ IsDigitCh(Ch(p, 1)) /\ Ch(p, 1) # "0"

\* the %m directive of strptime: 1[0-2]|0[1-9]|[1-9]
MonthDirective(p) ==
  \/ Len(p) = 2 /\ AllIn(p, "digit") /\ ToInt(p) >= 1 /\ ToInt(p) <= 12
  \/ Len(p) = 1 /\ AllIn(p, "digit") /\ ToInt(p) >= 1

\* the %Y directive of strptime: \d\d\d\d
YearDirective(p) == Len(p) = 4 /\ AllIn(p, "digit")

IsLeapYear(y) == (y % 4 = 0 /\ y % 100 # 0) \/ y % 400 = 0

DaysInMonth(y, m) ==
  IF m = 2 THEN (IF IsLeapYear(y) THEN 29 ELSE 28)
  ELSE IF m \in {4, 6, 9, 11} THEN 30 ELSE 31

\* datetime.strptime(date_str, "%d/%m/%Y") succeeds: the three directives
\* match the whole string and the values are a date of the calendar
StrptimeOk(date_str) ==
  LET Parts(dd, mm, yy) ==
        /\ DayDirective(dd) /\ MonthDirective(mm) /\ YearDirective(yy)
        /\ ToInt(yy) >= 1
        /\ ToInt(Strip(dd)) <= DaysInMonth(ToInt(yy), ToInt(mm))
      Cut(s1, s2) ==
        /\ s1 >= 0 /\ s2 >= 0
        /\ Parts(Slice(date_str, 0, s1), Slice(date_str, s1 + 1, s2), From(date_str, s2 + 1))
      CutAt(s1) == Cut(s1, FindFrom(date_str, "/", s1 + 1))
  IN CutAt(Find(date_str, "/"))

\* the year of the parsed date
DateYear(date_str) == ToInt(From(date_str, Len(date_str) - 4))

\* _is_valid_date with the calendar left out: only the ranges day 1..31,
\* month 1..12 and year 1900..2100 are tested
IsValidDateRangeOnly(date_str) ==
  /\ Len(date_str) = 10
  /\ DayDirective(Slice(date_str, 0, 2))
  /\ Ch(date_str, 2) = "/"
  /\ MonthDirective(Slice(date_str, 3, 5))
  /\ Ch(date_str, 5) = "/"
  /\ YearDirective(From(date_str, 6))
  /\ ~(DateYear(date_str) < 1900 \/ DateYear(date_str) > 2100)

\* _is_valid_date (the month and day range tests that follow the year
\* test cannot fail on a parsed date)
IsValidDate(date_str) ==
  /\ StrptimeOk(date_str)
  /\ ~(DateYear(date_str) < 1900 \/ DateYear(date_str) > 2100)

\* sum(c.isalpha() or c.isspace() for c in s)
CountAlphaSpace(s) ==
  Cardinality({i \in 0..(Len(s) - 1) : InClass(Ch(s, i), "alphaspace")})

\* _is_valid_country; alpha_ratio < 0.8 as 5 * count < 4 * len
IsValidCountry(country) ==
  LET Checked(country_lower) ==
        \/ country_lower \in valid_countries
        \/ /\ ~(Len(country_lower) < 3 \/ Len(country_lower) > 30)
           /\ ~(5 * CountAlphaSpace(country_lower) < 4 * Len(country_lower))
           /\ country_lower \notin ignore_words
  IN Checked(Strip(Lower(country)))

\* field.replace('_', ' ').title()
FieldLabel(f) == Title(Replace(f, "_", " "))

\* missing_fields with the loop left at the first missing field
RECURSIVE MissingFieldsFirstOnly(_, _)
MissingFieldsFirstOnly(rec, n) ==
  IF n > Len(Fields) THEN <<>>
  ELSE IF Falsy(rec[Fields[n]]) \/ Strip(rec[Fields[n]]) = ""
  THEN <<FieldLabel(Fields[n])>>
  ELSE MissingFieldsFirstOnly(rec, n + 1)

\* missing_fields of _validate_result, from field number n on
RECURSIVE MissingFields(_, _)
MissingFields(rec, n) ==
  IF n > Len(Fields) THEN <<>>
  ELSE (IF Falsy(rec[Fields[n]]) \/ Strip(rec[Fields[n]]) = ""
        THEN <<FieldLabel(Fields[n])>> ELSE <<>>) \o MissingFields(rec, n + 1)

date_fields == <<"date_of_birth", "date_of_issue", "date_of_expiry">>

MissingMessage(labels) ==
  "Image quality is poor. Could not detect: " \o Join(", ", labels)
    \o ". Please provide a clearer image."

InvalidDateMessage(f) ==
  "Image quality is poor. " \o FieldLabel(f)
    \o " is incomplete or invalid. Please provide a clearer image."

InvalidCountryMessage(country) ==
  "Image quality is poor. Country '" \o country
    \o "' appears invalid. Please provide a clearer image."

\* the date fields of a complete record, in the order of the checks, whose
\* value _is_valid_date rejects
InvalidDateFields(rec) == {n \in 1..Len(date_fields) : ~IsValidDate(rec[date_fields[n]])}

\* _validate_result with the date fields taken in the opposite order
ValidateResultExpiryFirst(rec) ==
  LET Decided(missing_fields, bad) ==
        IF missing_fields # <<>> THEN MissingMessage(missing_fields)
        ELSE IF bad # {} THEN InvalidDateMessage(date_fields[Max(bad)])
        ELSE IF ~IsValidCountry(rec["country_of_stay"])
        THEN InvalidCountryMessage(rec["country_of_stay"])
        ELSE None
  IN Decided(MissingFields(rec, 1), InvalidDateFields(rec))

\* _validate_result without the presence check
ValidateResultSkippingPresence(rec) ==
  LET Decided(bad) ==
        IF bad # {} THEN InvalidDateMessage(date_fields[Min(bad)])
        ELSE IF ~IsValidCountry(rec["country_of_stay"])
        THEN InvalidCountryMessage(rec["country_of_stay"])
        ELSE None
  IN Decided(InvalidDateFields(rec))

\* _validate_result: the error message, None when the record is valid
ValidateResult(rec) ==
  LET Decided(missing_fields, bad) ==
        IF missing_fields # <<>> THEN MissingMessage(missing_fields)
        ELSE IF bad # {} THEN InvalidDateMessage(date_fields[Min(bad)])
        ELSE IF ~IsValidCountry(rec["country_of_stay"])
        THEN InvalidCountryMessage(rec["country_of_stay"])
        ELSE None
  IN Decided(MissingFields(rec, 1), InvalidDateFields(rec))

\* the first-pass iteration with the gender assigned whenever the region
\* yields one, whatever the field holds
StrictRegionOverwriting(rec, text) ==
  LET r1 == SetIfUnset(rec, "identity_number", TRUE, ExtractIdentityNumber(text))
      r2 == ExtractDates(text, r1)
      r3 == AssignIfFound(r2, "gender", ExtractGender(text))
      r4 == SetIfUnset(r3, "country_of_stay", TRUE, ExtractCountry(text))
      r5 == SetIfUnset(r4, "name", Contains(Lower(text), "name"), ExtractName(text, FALSE))
  IN SetIfUnset(r5, "father_name", Contains(Lower(text), "father"), ExtractName(text, TRUE))

\* one iteration of the first pass of parse, on one filtered text
StrictRegion(rec, text) ==
  LET r1 == SetIfUnset(rec, "identity_number", TRUE, ExtractIdentityNumber(text))
      r2 == ExtractDates(text, r1)
      r3 == SetIfUnset(r2, "gender", TRUE, ExtractGender(text))
      r4 == SetIfUnset(r3, "country_of_stay", TRUE, ExtractCountry(text))
      r5 == SetIfUnset(r4, "name", Contains(Lower(text), "name"), ExtractName(text, FALSE))
  IN SetIfUnset(r5, "father_name", Contains(Lower(text), "father"), ExtractName(text, TRUE))

\* the second pass and the cleaning of parse
StrictFinish(texts, rec) ==
  CleanResult(IF Falsy(rec["name"]) \/ Falsy(rec["father_name"])
              THEN ExtractStandaloneNames(texts, rec) ELSE rec)

RECURSIVE StrictFirstPass(_, _)
StrictFirstPass(texts, rec) ==
  IF texts = <<>> THEN rec
  ELSE StrictFirstPass(Tail(texts), StrictRegion(rec, texts[1]))

\* CNICParser.parse(raw_texts): <<result, validation_error>>
Parse(texts) ==
  LET Validated(rec) == <<rec, ValidateResult(rec)>>
      Parsed(filtered_texts) ==
        Validated(StrictFinish(filtered_texts, StrictFirstPass(filtered_texts, EmptyRecord)))
  IN Parsed(FilteredTexts(texts))

\* ------------------------------------------------------------------------
\* Lenient parser: parse_cnic_fields (app/utils/parser.py)
\* ------------------------------------------------------------------------

label_words == {
  "pakistan", "national", "identity", "card", "islamic",
  "republic", "holder", "signature", "holder's signature",
  "name", "father", "fathers", "gender", "country", "date",
  "birth", "issue", "expiry", "stay", "of", "the" }

\* _is_label_only
IsLabelOnly(text) == Lower(Strip(text)) \in label_words

\* group(1) of re.search(r"(?i)(?:date\s+of\s+)?KW[^\d]*(\d{2}[./-]\d{2}[./-]\d{4})", s),
\* None without a match.  [^\d]* runs up to the first digit after the
\* keyword, where the date has to start; when it does not, the search
\* goes on from the next occurrence of the keyword.  s_lower is s.lower().
RECURSIVE KeywordDateFrom(_, _, _, _)
KeywordDateFrom(s, s_lower, kw, i) ==
  LET p == FindFrom(s_lower, kw, i)
      d == p + Len(kw) + Run(s, p + Len(kw), "nondigit")
  IN IF p < 0 THEN None
     ELSE IF DateAt(s, d) THEN Slice(s, d, d + 10)
     ELSE KeywordDateFrom(s, s_lower, kw, p + 1)

KeywordDate(s, kw) == KeywordDateFrom(s, Lower(s), kw, 0)

\* the keywords of the multi-field branch, in the code's order
lenient_date_keywords == <<
  <<"birth", "date_of_birth">>, <<"expiry", "date_of_expiry">>,
  <<"issue", "date_of_issue">> >>

\* date_positions of the multi-field branch: (text_stripped.find(raw),
\* normalized) in findall order, not sorted
RECURSIVE RawDatePositions(_, _)
RawDatePositions(text_stripped, all_dates_raw) ==
  IF all_dates_raw = <<>> THEN <<>>
  ELSE << <<Find(text_stripped, all_dates_raw[1]),
            Replace(Replace(all_dates_raw[1], "-", "/"), ".", "/")>> >>
         \o RawDatePositions(text_stripped, Tail(all_dates_raw))

\* match.group(1).replace("-", "/").replace(".", "/") for the keyword's
\* pattern, None without a match
KeywordDateNormalized(s, kw) ==
  LET Normalized(m) == IF m = None THEN None ELSE Replace(Replace(m, "-", "/"), ".", "/")
  IN Normalized(KeywordDate(s, kw))

\* the single-field branch of the date block
SingleFieldDates(text_stripped, text_lower, data) ==
  LET d1 == FillIfFound(data, "date_of_birth", Contains(text_lower, "birth"),
                        KeywordDateNormalized(text_stripped, "birth"))
      d2 == FillIfFound(d1, "date_of_issue", Contains(text_lower, "issue"),
                        KeywordDateNormalized(text_stripped, "issue"))
  IN FillIfFound(d2, "date_of_expiry", Contains(text_lower, "expiry"),
                 KeywordDateNormalized(text_stripped, "expiry"))

\* the multi-field branch of the date block
MultiFieldDates(text_stripped, text_lower, data) ==
  MatchKeywords(
    SortByPos(KeywordPositions(lenient_date_keywords, text_lower, data, 1)),
    RawDatePositions(text_stripped, FindAll(DateMatches(text_stripped), text_stripped)),
    {}, data)

\* sum(["birth" in text_lower, "issue" in text_lower, "expiry" in text_lower])
KeywordCount(text_lower) ==
  (IF Contains(text_lower, "birth") THEN 1 ELSE 0)
    + (IF Contains(text_lower, "issue") THEN 1 ELSE 0)
    + (IF Contains(text_lower, "expiry") THEN 1 ELSE 0)

\* the date block of the loop body of parse_cnic_fields
LenientDates(text_stripped, text_lower, data) ==
  LET has_multiple_dates == Len(FindAll(DateMatches(text_stripped), text_stripped)) >= 2
      has_multiple_keywords ==
        Count(text_lower, "date") >= 2 \/ KeywordCount(text_lower) >= 2
  IN IF has_multiple_dates /\ has_multiple_keywords
     THEN MultiFieldDates(text_stripped, text_lower, data)
     ELSE SingleFieldDates(text_stripped, text_lower, data)

\* the identity number block of the loop body: the dashed form is
\* assigned whenever it is found, the 13-digit form only into a falsy field
LenientIdentity(text_stripped, data) ==
  LET Dashed(digits) == IF digits = None THEN None ELSE DashedForm(digits)
  IN FillIfFound(
       AssignIfFound(data, "identity_number",
                     SearchGroup(IdentityDashedMatches(text_stripped), text_stripped)),
       "identity_number", TRUE,
       Dashed(SearchGroup(Digits13Matches(text_stripped), text_stripped)))

\* the value the gender block assigns, None when it assigns nothing
LenientGenderValue(text_stripped, text_lower) ==
  LET Decided(gender_match) ==
        IF gender_match # None
        THEN (IF gender_match = "M" THEN "Male" ELSE "Female")
        ELSE IF Contains(text_lower, "female") THEN "Female"
        ELSE IF Contains(text_lower, "male") THEN "Male"
        ELSE None
  IN IF SearchStart(GenderWordMatches(text_lower)) < 0 THEN None
     ELSE Decided(SearchGroup(GenderTokenMatches(text_stripped, FALSE), text_stripped))

\* the gender block of the loop body: assigned whatever the field holds
LenientGender(text_stripped, text_lower, data) ==
  AssignIfFound(data, "gender", LenientGenderValue(text_stripped, text_lower))

\* the country block of the loop body
LenientCountry(text_stripped, text_lower, data) ==
  LET Assigned(value) ==
        SetIfUnset(data, "country_of_stay",
                   /\ Contains(text_lower, "country of stay")
                   /\ value # "" /\ ~IsLabelOnly(value),
                   Title(value))
  IN Assigned(Strip(Sub(CountryOfStayLabelPlusMatches(text_stripped), "", text_stripped)))

\* the father's name block without the removal of the "Or" token
LenientFatherKeepingOr(text_stripped, text_lower, data) ==
  LET Assigned(value) ==
        SetIfUnset(data, "father_name",
                   /\ Contains(text_lower, "father")
                   /\ value # "" /\ ~IsLabelOnly(value) /\ Len(value) > 2,
                   Title(value))
  IN Assigned(Strip(Sub(FatherNameLabelMatches(text_stripped), "", text_stripped)))

\* the father's name block of the loop body
LenientFather(text_stripped, text_lower, data) ==
  LET Assigned(value) ==
        SetIfUnset(data, "father_name",
                   /\ Contains(text_lower, "father")
                   /\ value # "" /\ ~IsLabelOnly(value) /\ Len(value) > 2,
                   Title(value))
      WithoutOr(value) == Sub(OrTokenMatches(value), " ", value)
  IN Assigned(WithoutOr(Strip(Sub(FatherNameLabelMatches(text_stripped), "", text_stripped))))

\* the name block of the loop body
LenientName(text_stripped, data) ==
  LET Assigned(value) ==
        SetIfUnset(data, "name",
                   /\ (SearchStart(NameWordMatches(text_stripped)) >= 0
                       \/ SearchStart(NameColonMatches(text_stripped)) >= 0)
                   /\ value # "" /\ ~IsLabelOnly(value) /\ Len(value) > 2,
                   Title(value))
  IN Assigned(Strip(Sub(NameLabelMatches(text_stripped), "", text_stripped)))

\* ^\d{2}[./-]\d{2}[./-]\d{4}$
IsBareDate(t) == Len(t) = 10 /\ DateAt(t, 0)

\* standalone_dates after the loop body's collection step
CollectDate(text_stripped, dates) ==
  LET Collected(t) ==
        IF IsBareDate(t) THEN Append(dates, Replace(Replace(t, "-", "/"), ".", "/"))
        ELSE dates
  IN Collected(Strip(text_stripped))

\* standalone_names after the loop body's collection step
CollectName(text_stripped, names) ==
  IF /\ Len(text_stripped) >= 5 /\ Len(text_stripped) <= 50
     /\ AllIn(text_stripped, "alphaspace")
     /\ Len(Split(text_stripped)) >= 2
     /\ ~IsLabelOnly(text_stripped)
  THEN Append(names, text_stripped)
  ELSE names

\* the field blocks of the loop body, in the code's order
LenientFields(text_stripped, text_lower, data) ==
  LenientName(text_stripped,
    LenientFather(text_stripped, text_lower,
      LenientDates(text_stripped, text_lower,
        LenientCountry(text_stripped, text_lower,
          LenientGender(text_stripped, text_lower,
            LenientIdentity(text_stripped, data))))))

\* one iteration of the loop of parse_cnic_fields; st holds data,
\* standalone_dates and standalone_names
LenientRegion(st, text) ==
  LET Body(text_stripped, text_lower) ==
        [data |-> LenientFields(text_stripped, text_lower, st.data),
         standalone_dates |-> CollectDate(text_stripped, st.standalone_dates),
         standalone_names |-> CollectName(text_stripped, st.standalone_names)]
  IN Body(Replace(Replace(Strip(text), "lssue", "issue"), "Fathet", "Father"),
          Replace(Replace(Lower(Strip(text)), "lssue", "issue"), "fathet", "father"))

\* one match of (?i)\bname\s+([A-Za-z ]+) at offset i: <<start, end>> of
\* group 1, <<>> without a match.  \s+ takes the whole run of spaces when a
\* letter follows it; otherwise it gives one space back to the group.
NameValueAt(s, i) ==
  LET Group(a, r) ==
        IF a > i + 4 /\ r >= 1 THEN <<a, a + r>>
        ELSE IF a >= i + 6 THEN <<a - 1, a>>
        ELSE <<>>
      After(a) == Group(a, Run(s, a, "alphaspace"))
  IN IF ~(WordBoundary(s, i) /\ StartsAtI(s, "name", i)) THEN <<>>
     ELSE After(SkipSpaces(s, i + 4))

\* the finditer loop of the name block of _extract_missing_from_combined:
\* the value assigned to data["name"], None when nothing is assigned
RECURSIVE CombinedName(_, _)
CombinedName(combined, start) ==
  LET Accepted(i, m, value) ==
        IF ~Contains(Lower(Slice(combined, Max({i - 15, 0}), i)), "father")
           /\ ~IsLabelOnly(value)
        THEN Title(value)
        ELSE CombinedName(combined, m[2])
      Matched(i, m) == Accepted(i, m, Strip(Slice(combined, m[1], m[2])))
      Found(S) == IF S = {} THEN None ELSE Matched(Min(S), NameValueAt(combined, Min(S)))
  IN Found({i \in start..(Len(combined) - 1) : NameValueAt(combined, i) # <<>>})

\* the offset where group 1 of
\* (?i)father'?s?\s+name\s*:?\s+([A-Za-z ]{3,50}) starts for the match at
\* offset i, -1 without a match.  The engine first takes every space, the
\* colon, and every space after it; it then gives spaces back to the group
\* one at a time, and last tries without the colon.
FatherValueStart(s, i) ==
  LET Starts(lo, hi) == {g \in lo..hi : Run(s, g, "alphaspace") >= 3}
      Latest(with_colon, without) ==
        IF with_colon # {} THEN Max(with_colon)
        ELSE IF without # {} THEN Max(without)
        ELSE -1
      AfterName(p, c) ==
        Latest(IF Ch(s, c) = ":" THEN Starts(c + 2, SkipSpaces(s, c + 1)) ELSE {},
               Starts(p + 1, c))
      AfterFather(a, b) ==
        IF StartsAtI(s, "father", i) /\ b > a /\ StartsAtI(s, "name", b)
        THEN AfterName(b + 4, SkipSpaces(s, b + 4)) ELSE -1
      Label(a) == AfterFather(a, SkipSpaces(s, a))
  IN Label(SkipOpt(s, SkipOpt(s, i + 6, "'"), "sS"))

\* group(1) of the search for the father's name pattern, None without a match
FatherValue(s) ==
  LET Group(g) == Slice(s, g, g + Min({50, Run(s, g, "alphaspace")}))
      First(S) == IF S = {} THEN None ELSE Group(FatherValueStart(s, Min(S)))
  IN First({i \in 0..Len(s) : FatherValueStart(s, i) >= 0})

\* re.split(r"\s+(?:gender|country|date|identity|holder)", value, flags=re.IGNORECASE)[0]
SplitHead(value) ==
  LET Before(i) == IF i < 0 THEN value ELSE Slice(value, 0, i)
  IN Before(SearchStart(SplitKeywordMatches(value)))

\* the value the father's name block of _extract_missing_from_combined
\* assigns, None when it assigns nothing
CombinedFather(combined) ==
  LET Checked(value) ==
        IF ~IsLabelOnly(value) /\ Len(value) > 2 THEN Title(value) ELSE None
      WithoutOr(value) == Sub(OrTokenMatches(value), " ", value)
      Matched(father) ==
        IF father = None THEN None ELSE Checked(WithoutOr(SplitHead(Strip(father))))
  IN Matched(FatherValue(combined))

\* the value the gender block of _extract_missing_from_combined assigns
CombinedGender(combined) ==
  LET Matched(gender) ==
        IF gender = None THEN None
        ELSE IF Upper(Ch(gender, Len(gender) - 1)) = "M" THEN "Male" ELSE "Female"
  IN Matched(SearchGroup(GenderValueMatches(combined), combined))

\* combined after the typo replacements of _extract_missing_from_combined
CombinedTypos(combined) ==
  Replace(Replace(Replace(combined, "lssue", "issue"), "Fathet", "Father"),
          "fathet", "father")

\* the blocks of _extract_missing_from_combined that read the corrected text
CombinedFields(data, combined) ==
  LET d2 == FillIfFound(data, "date_of_birth", TRUE, KeywordDateNormalized(combined, "birth"))
      d3 == FillIfFound(d2, "date_of_issue", TRUE, KeywordDateNormalized(combined, "issue"))
      d4 == FillIfFound(d3, "date_of_expiry", TRUE, KeywordDateNormalized(combined, "expiry"))
      d5 == FillIfFound(d4, "name", TRUE, CombinedName(combined, 0))
      d6 == FillIfFound(d5, "father_name", TRUE, CombinedFather(combined))
  IN FillIfFound(d6, "gender", TRUE, CombinedGender(combined))

\* _extract_missing_from_combined(data, combined): data afterwards
ExtractMissingFromCombined(data, combined0) ==
  CombinedFields(
    FillIfFound(data, "identity_number", TRUE,
                SearchGroup(IdentityDashedMatches(combined0), combined0)),
    CombinedTypos(combined0))

\* range(max(0, i-2), min(len(raw_texts), i+3)), as 1-based indices of the
\* region with 1-based index n
Window(texts, n) ==
  {j \in 1..Len(texts) : j >= n - 2 /\ j <= n + 2}

RECURSIVE MapTitle(_)
MapTitle(names) ==
  IF names = <<>> THEN {} ELSE {Title(names[1])} \cup MapTitle(Tail(names))

SeqToSet(q) == {q[n] : n \in 1..Len(q)}

\* " ".join(raw_texts[lo:hi]) for the 1-based indices lo..hi
RECURSIVE JoinRange(_, _, _)
JoinRange(texts, lo, hi) ==
  IF lo > hi THEN ""
  ELSE IF lo = hi THEN texts[lo]
  ELSE texts[lo] \o " " \o JoinRange(texts, lo + 1, hi)

\* the first raw_texts[j].strip() of the window of region n that is in
\* standalone_dates, None when there is none
WindowDate(texts, standalone_dates, n) ==
  LET First(hits) == IF hits = {} THEN None ELSE Strip(texts[Min(hits)])
  IN First({j \in Window(texts, n) : Strip(texts[j]) \in SeqToSet(standalone_dates)})

\* the first raw_texts[j].strip().title() of the window of region n that
\* is the title() of a standalone name, None when there is none
WindowName(texts, standalone_names, n) ==
  LET First(hits) == IF hits = {} THEN None ELSE Title(Strip(texts[Min(hits)]))
  IN First({j \in Window(texts, n) :
              Title(Strip(texts[j])) \in MapTitle(standalone_names)})

\* " ".join(raw_texts[max(0, i-2):min(len(raw_texts), i+3)]).lower()
ContextLower(texts, n) ==
  Lower(JoinRange(texts, Min(Window(texts, n)), Max(Window(texts, n))))

\* the blocks of one iteration of the loop of _match_standalone_values
StandaloneFields(data, text_lower, context, wdate, wname) ==
  LET d1 == FillIfFound(data, "date_of_birth", Contains(text_lower, "birth"), wdate)
      d2 == FillIfFound(d1, "date_of_issue", Contains(text_lower, "issue"), wdate)
      d3 == FillIfFound(d2, "date_of_expiry", Contains(text_lower, "expiry"), wdate)
      d4 == FillIfFound(d3, "father_name", Contains(text_lower, "father"), wname)
  IN FillIfFound(d4, "name",
                 /\ (SearchStart(NameWordMatches(text_lower)) >= 0
                     \/ Strip(text_lower) = "name")
                 /\ ~Contains(context, "father"),
                 wname)

\* one iteration (region n, 1-based) of the loop of _match_standalone_values
StandaloneRegion(data, texts, standalone_dates, standalone_names, n) ==
  StandaloneFields(data, Lower(texts[n]), ContextLower(texts, n),
                   WindowDate(texts, standalone_dates, n),
                   WindowName(texts, standalone_names, n))

\* _match_standalone_values: data afterwards, from region n on
RECURSIVE MatchStandaloneValues(_, _, _, _, _)
MatchStandaloneValues(data, texts, standalone_dates, standalone_names, n) ==
  IF n > Len(texts) THEN data
  ELSE MatchStandaloneValues(
         StandaloneRegion(data, texts, standalone_dates, standalone_names, n),
         texts, standalone_dates, standalone_names, n + 1)

EmptyLenient ==
  [data |-> EmptyRecord, standalone_dates |-> <<>>, standalone_names |-> <<>>]

RECURSIVE LenientFirstPass(_, _)
LenientFirstPass(texts, st) ==
  IF texts = <<>> THEN st
  ELSE LenientFirstPass(Tail(texts), LenientRegion(st, texts[1]))

\* parse_cnic_fields(raw_texts): the fields of the CNICData returned
ParseCnicFields(texts) ==
  LET Rest(st) ==
        MatchStandaloneValues(ExtractMissingFromCombined(st.data, Join(" ", texts)),
                              texts, st.standalone_dates, st.standalone_names, 1)
  IN Rest(LenientFirstPass(texts, EmptyLenient))

\* ------------------------------------------------------------------------
\* Inputs
\* ------------------------------------------------------------------------

\* longest list of regions drawn from RegionVocab
MaxRegions == 3

\* longest merged date line, in tokens
MaxTokens == 4

\* OCR regions of a card, as the detector and the OCR engine deliver them
RegionVocab == {
  "Gender M 11111-2222222-3 Date of Birth 01.01.2000",
  "Gender F 44444-5555555-6 Date of Birth 02.02.2002",
  "Name Jamil Ahmad",
  " Name  Ali   Raza ",
  "Father Name Khali Rahman",
  "Country of Stay Pakistan" }

GeneralLists == UNION {[1..n -> RegionVocab] : n \in 0..MaxRegions}

DateKeywordTokens == {"Birth", "Issue", "Expiry"}
DateValueTokens == {"01.01.2000", "02-02-2010", "03/03/2020"}
DateTokens == DateKeywordTokens \cup DateValueTokens

\* token sequences of a line that merges several date labels and several
\* dates: each keyword at most once, at least two keywords and two dates
MergedTokenSeqs ==
  {t \in UNION {[1..n -> DateTokens] : n \in 4..MaxTokens} :
     /\ \A i, j \in 1..Len(t) : (t[i] \in DateKeywordTokens /\ t[i] = t[j]) => i = j
     /\ Cardinality({i \in 1..Len(t) : t[i] \in DateKeywordTokens}) >= 2
     /\ Cardinality({i \in 1..Len(t) : t[i] \in DateValueTokens}) >= 2}

SampleLine ==
  "Identity Number Date of Birth 16202-0883647-3 24.08.1972 Date of Expiry Date of Issue 22.01.2021 22.01.2014"

MergedLines == {Join(" ", t) : t \in MergedTokenSeqs} \cup {SampleLine}

NameTokens == {"Jamil", "Ahmad", "Khali", "Rahman"}

NameLine(x, y) == "Name " \o x \o " " \o y
FathetLine(x, y) == "Fathet Name " \o x \o " Or " \o y

\* a labelled name region and a father-name region with the 'Fathet' typo
\* and an injected 'Or', in both orders
NamePairs ==
  UNION {{<<NameLine(n[1], n[2]), FathetLine(n[3], n[4])>>,
          <<FathetLine(n[3], n[4]), NameLine(n[1], n[2])>>} :
         n \in {m \in [1..4 -> NameTokens] : m[1] # m[2] /\ m[3] # m[4]}}

CardDates == {"01.01.2000", "31.12.2100", "31.02.2000", "29.02.1900",
              "01.13.2000", "32.01.2000", "01.01.2101", "31.12.1899"}
CardCountries == {"Pakistan", "Gender"}

\* the four regions of a card on which every field is labelled
CardLists ==
  {<<"Name Jamil Ahmad", "Father Name Khali Rahman", "Country of Stay " \o c,
     "Gender M 16202-0883647-3 Birth 24.08.1972 Issue " \o d[1] \o " Expiry " \o d[2]>> :
     c \in CardCountries, d \in CardDates \X CardDates}

OrNameLine(x, y) == "Name " \o x \o " Or " \o y
OrFatherLine(x, y) == "Father Name " \o x \o " Or " \o y

\* correctly labelled name and father-name regions with an injected 'Or',
\* alone and together
OrLists ==
  UNION {{<<OrNameLine(n[1], n[2])>>, <<OrFatherLine(n[1], n[2])>>,
          <<OrNameLine(n[1], n[2]), OrFatherLine(n[2], n[1])>>} :
         n \in {m \in NameTokens \X NameTokens : m[1] # m[2]}}

\* lines with one date keyword: text between the keyword and the date, two
\* dates after the keyword, and a date on either side of the keyword
SingleKeywordLines == {
  "Identity Number Date of Birth 16202-0883647-3 24.08.1972",
  "Date of Expiry Pakistan 22-01-2021",
  "Date of Issue 22.01.2014 22.01.2021",
  "24.08.1972 Date of Birth 01-01-2000" }

Inputs ==
  GeneralLists \cup {<<line>> : line \in MergedLines} \cup NamePairs
    \cup CardLists \cup OrLists \cup {<<line>> : line \in SingleKeywordLines}

\* longest list of regions drawn from SplitVocab
MaxSplit == 3

\* OCR regions of a card whose labels and values were detected as separate
\* regions, with two regions that keep their label
SplitVocab == {
  "Date of Birth", "Date of Expiry 22-01-2021", "16202-0883647-3",
  "24.08.1972", "22/01/2021", "Jamil Ahmad", "KHALI RAHMAN", "M", "Gender",
  "Name Jamil Ahmad" }

SplitLists == UNION {[1..n -> SplitVocab] : n \in 0..MaxSplit}

\* a date label and a bare date two and three regions apart, in both orders
WindowLists == {
  <<"Date of Birth", "Gender", "22/01/2021">>,
  <<"Date of Birth", "Gender", "Gender", "22/01/2021">>,
  <<"22/01/2021", "Gender", "Date of Birth">>,
  <<"22/01/2021", "Gender", "Gender", "Date of Birth">>,
  <<"24.08.1972", "Gender", "Gender", "Date of Birth", "M", "22/01/2021">> }

\* images sent to the endpoints, as the regions the detector finds in them:
\* an image without regions, regions without text, partial cards, label
\* regions followed by a region without text, and the cards on which every
\* field is labelled
EndpointImages ==
  {<<>>, <<"">>, <<"Name Jamil Ahmad">>, <<"", "Country of Stay Pakistan", "">>,
   <<"Father Name Khali Rahman", "Gender F 44444-5555555-6 Date of Birth 02.02.2002">>,
   <<"Father Name", "">>, <<"Name", "">>, <<"Name", "", "Jamil Ahmad">>,
   <<"Date of Birth", "", "22/01/2021">>}
  \cup CardLists

\* most calls in flight at once
MaxCalls == 2

\* lists handed to concurrent calls: the same two fields in opposite orders
ConcurrentInputs == {
  <<"Name Jamil Ahmad", "Gender M 11111-2222222-3 Date of Birth 01.01.2000">>,
  <<"Gender F 44444-5555555-6 Date of Birth 02.02.2002", " Name  Ali   Raza ">> }

\* result dicts _extract_dates is called with: nothing set yet, or the
\* date of birth already set by an earlier region
DateRecords ==
  {EmptyRecord, [EmptyRecord EXCEPT !["date_of_birth"] = "09/09/1999"]}

\* texts _normalize_text is called with
NormalizeInputs == {
  "Date of lssue 22.01.2014", "Date of Issue 22.01.2014", "Lssue",
  "Fathet Name Khali Rahman", "Father Name Khali Rahman", "FATHET NAME",
  "Gende M", " Name  Ali   Raza " }

\* texts _is_meaningful is called with: cleaned texts, as parse passes them
MeaningfulInputs == {
  "pakistan national identity card", "PAKISTAN National Identity Card",
  "Islamic Republic of Pakistan", "ISLAMIC REPUBLIC OF PAKISTAN",
  "Holder's Signature", "holder's signature", "National Identity Card",
  "National Identity", "Identity Card", "PAKISTAN",
  "PAKISTAN National Identity Card Name Jamil Ahmad",
  "Islamic Republic of Pakistan 16202-0883647-3",
  "Holder's Signature Jamil", "National Identity Card No",
  "No text detected", "National Identity Card no text detected",
  "M", "", "Name Jamil Ahmad" }

\* what _extract_identity_number is called with: the sample card's number
\* with each group boundary dashed, spaced or closed up, alone, after a label
\* (with and without the space after it), after a stray digit, before another
\* label or before a stray digit; and texts without such a number
IdentitySeparators == {"", "-", " "}
IdentityInputs ==
  {pre \o "16202" \o a \o "0883647" \o b \o "3" \o post :
     pre \in {"", "Identity Number ", "No", "1"},
     a \in IdentitySeparators, b \in IdentitySeparators,
     post \in {"", " Date of Birth", "4"}}
  \cup {"1620-0883647-3", "16202--0883647-3", "16202  0883647 3", "24.08.1972",
        "Identity Number", "16202-0883647"}

\* what _extract_gender is called with: labelled regions with the letter or
\* the word, other regions, and the bare letters its second branch reads
GenderInputs == {
  "Gender M", "Gender F", "Gender: F", "gender m", "Gende M", "GENDER F",
  "Gender Male", "Gender Female", "Gender male", "Gende female",
  "Gender", "Gender MF", "Gender M 16202-0883647-3", "Gender F Country of Stay",
  "M", "F", "m", "f", "Male", "Female", "Name Jamil M Ahmad", "Country of Stay F",
  "16202-0883647-3", "Jamil Ahmad" }

\* result dicts _validate_result is called with: every field absent or
\* present, the country and the dates valid or not
ValidateRecords ==
  [name : {None, "Jamil Ahmad"},
   father_name : {None, "Khali Rahman"},
   gender : {None, "Male"},
   country_of_stay : {None, "Pakistan", "Gender", "Gende"},
   identity_number : {None, "16202-0883647-3"},
   date_of_birth : {None, "24/08/1972", "31/02/2000"},
   date_of_issue : {None, "22/01/2014", "32/01/2014"},
   date_of_expiry : {None, "22/01/2021", "01/01/2101"}]

\* ------------------------------------------------------------------------
\* State
\* ------------------------------------------------------------------------

VARIABLES
  raw_texts,         \* the list of OCR texts handed to the parser
  parser,            \* the entry point called: "strict" (CNICParser.parse),
                     \* "lenient" (parse_cnic_fields), or a single function:
                     \* "dates", "normalize", "validate", "meaningful",
                     \* "identity", "gender"
  pc,                \* where the call stands
  idx,               \* regions consumed by the loop so far
  filtered_texts,    \* strict: the cleaned and filtered texts
  result,            \* strict: the result dict
  validation_error,  \* strict: the error message, None without one
  data,              \* lenient: the data dict
  standalone_dates,  \* lenient: bare dates collected by the loop
  standalone_names,  \* lenient: name-shaped texts collected by the loop
  arg,               \* single function: the dict passed in
  out,               \* single function: the value returned
  calls,             \* concurrent calls: the local variables of each call
  dicts,             \* concurrent calls: the dict each call creates and fills
  tables,            \* the tables of the cnic_parser singleton
  request,           \* endpoints: the route called, its file and the parse
                     \* flag (a parameter of /extract, TRUE for /extract-json)
  cropped_images,    \* endpoints: the regions the detector crops from the
                     \* image, each held as the text the OCR engine reads in it
  response           \* endpoints: the response model returned, or the
                     \* HTTPException raised

vars == <<raw_texts, parser, pc, idx, filtered_texts, result, validation_error,
          data, standalone_dates, standalone_names, arg, out, calls, dicts, tables,
          request, cropped_images, response>>

\* typo_corrections, ignore_words and valid_countries of the singleton
ParserTables ==
  [typo_corrections |-> typo_corrections, ignore_words |-> ignore_words,
   valid_countries |-> valid_countries]

\* no concurrent call is modelled
NoCalls ==
  /\ calls = <<>>
  /\ dicts = <<>>
  /\ tables = ParserTables

\* no request is modelled
NoRequest ==
  /\ request = None
  /\ cropped_images = <<>>
  /\ response = None

Fresh ==
  /\ NoCalls
  /\ NoRequest
  /\ pc = "start"
  /\ idx = 0
  /\ filtered_texts = <<>>
  /\ result = EmptyRecord
  /\ validation_error = None
  /\ data = EmptyRecord
  /\ standalone_dates = <<>>
  /\ standalone_names = <<>>
  /\ out = None

Init ==
  /\ raw_texts \in Inputs
  /\ parser \in {"strict", "lenient"}
  /\ arg = EmptyRecord
  /\ Fresh

\* ------------------------------------------------------------------------
\* CNICParser.parse
\* ------------------------------------------------------------------------

\* cleaned_texts and filtered_texts
StrictFilter ==
  /\ parser = "strict" /\ pc = "start"
  /\ filtered_texts' = FilteredTexts(raw_texts)
  /\ pc' = "first_pass"
  /\ UNCHANGED <<request, cropped_images, response, calls, dicts, tables, raw_texts, parser, idx, result, validation_error,
                 data, standalone_dates, standalone_names, arg, out>>

\* one iteration of the first pass
StrictLoop ==
  /\ parser = "strict" /\ pc = "first_pass"
  /\ idx < Len(filtered_texts)
  /\ result' = StrictRegion(result, filtered_texts[idx + 1])
  /\ idx' = idx + 1
  /\ UNCHANGED <<request, cropped_images, response, calls, dicts, tables, raw_texts, parser, pc, filtered_texts, validation_error,
                 data, standalone_dates, standalone_names, arg, out>>

\* the second pass, _clean_result and _validate_result
StrictValidate ==
  /\ parser = "strict" /\ pc = "first_pass"
  /\ idx = Len(filtered_texts)
  /\ result' = StrictFinish(filtered_texts, result)
  /\ validation_error' = ValidateResult(result')
  /\ pc' = "done"
  /\ UNCHANGED <<request, cropped_images, response, calls, dicts, tables, raw_texts, parser, idx, filtered_texts,
                 data, standalone_dates, standalone_names, arg, out>>

\* ------------------------------------------------------------------------
\* parse_cnic_fields
\* ------------------------------------------------------------------------

\* one iteration of the loop over raw_texts
LenientLoop ==
  /\ parser = "lenient" /\ pc = "start"
  /\ idx < Len(raw_texts)
  /\ LET Assigned(st) ==
           /\ data' = st.data
           /\ standalone_dates' = st.standalone_dates
           /\ standalone_names' = st.standalone_names
     IN Assigned(LenientRegion([data |-> data, standalone_dates |-> standalone_dates,
                                standalone_names |-> standalone_names],
                               raw_texts[idx + 1]))
  /\ idx' = idx + 1
  /\ UNCHANGED <<request, cropped_images, response, calls, dicts, tables, raw_texts, parser, pc, filtered_texts, result, validation_error,
                 arg, out>>

\* _extract_missing_from_combined
LenientCombined ==
  /\ parser = "lenient" /\ pc = "start"
  /\ idx = Len(raw_texts)
  /\ data' = ExtractMissingFromCombined(data, Join(" ", raw_texts))
  /\ pc' = "combined"
  /\ UNCHANGED <<request, cropped_images, response, calls, dicts, tables, raw_texts, parser, idx, filtered_texts, result, validation_error,
                 standalone_dates, standalone_names, arg, out>>

\* _match_standalone_values and the return
LenientStandalone ==
  /\ parser = "lenient" /\ pc = "combined"
  /\ data' = MatchStandaloneValues(data, raw_texts, standalone_dates, standalone_names, 1)
  /\ pc' = "done"
  /\ UNCHANGED <<request, cropped_images, response, calls, dicts, tables, raw_texts, parser, idx, filtered_texts, result, validation_error,
                 standalone_dates, standalone_names, arg, out>>

Next ==
  \/ StrictFilter
  \/ StrictLoop
  \/ StrictValidate
  \/ LenientLoop
  \/ LenientCombined
  \/ LenientStandalone

Spec == Init /\ [][Next]_vars

\* the same calls on cards whose labels and values are separate regions
SplitInit ==
  /\ raw_texts \in SplitLists \cup WindowLists
  /\ parser \in {"strict", "lenient"}
  /\ arg = EmptyRecord
  /\ Fresh

SpecSplit == SplitInit /\ [][Next]_vars

\* ------------------------------------------------------------------------
\* Single calls of _extract_dates, _normalize_text and _validate_result
\* ------------------------------------------------------------------------

UnitInit ==
  /\ \/ /\ parser = "dates"
        /\ raw_texts \in {<<line>> : line \in MergedLines}
        /\ arg \in DateRecords
     \/ /\ parser = "normalize"
        /\ raw_texts \in {<<text>> : text \in NormalizeInputs}
        /\ arg = EmptyRecord
     \/ /\ parser = "validate"
        /\ raw_texts = <<>>
        /\ arg \in ValidateRecords
     \/ /\ parser = "identity"
        /\ raw_texts \in {<<text>> : text \in IdentityInputs}
        /\ arg = EmptyRecord
     \/ /\ parser = "gender"
        /\ raw_texts \in {<<text>> : text \in GenderInputs}
        /\ arg = EmptyRecord
     \/ /\ parser = "meaningful"
        /\ raw_texts \in {<<text>> : text \in MeaningfulInputs}
        /\ arg = EmptyRecord
  /\ Fresh

\* self._extract_dates(text, result)
CallExtractDates ==
  /\ parser = "dates" /\ pc = "start"
  /\ result' = ExtractDates(raw_texts[1], arg)
  /\ pc' = "done"
  /\ UNCHANGED <<request, cropped_images, response, calls, dicts, tables, raw_texts, parser, idx, filtered_texts, validation_error,
                 data, standalone_dates, standalone_names, arg, out>>

\* self._normalize_text(text)
CallNormalizeText ==
  /\ parser = "normalize" /\ pc = "start"
  /\ out' = NormalizeText(raw_texts[1])
  /\ pc' = "done"
  /\ UNCHANGED <<request, cropped_images, response, calls, dicts, tables, raw_texts, parser, idx, filtered_texts, result, validation_error,
                 data, standalone_dates, standalone_names, arg>>

\* self._validate_result(result)
CallValidateResult ==
  /\ parser = "validate" /\ pc = "start"
  /\ validation_error' = ValidateResult(arg)
  /\ pc' = "done"
  /\ UNCHANGED <<request, cropped_images, response, calls, dicts, tables, raw_texts, parser, idx, filtered_texts, result,
                 data, standalone_dates, standalone_names, arg, out>>

\* self._is_meaningful(text)
CallIsMeaningful ==
  /\ parser = "meaningful" /\ pc = "start"
  /\ out' = IsMeaningful(raw_texts[1])
  /\ pc' = "done"
  /\ UNCHANGED <<request, cropped_images, response, calls, dicts, tables, raw_texts, parser, idx, filtered_texts, result, validation_error,
                 data, standalone_dates, standalone_names, arg>>

\* self._extract_identity_number(text)
CallExtractIdentityNumber ==
  /\ parser = "identity" /\ pc = "start"
  /\ out' = ExtractIdentityNumber(raw_texts[1])
  /\ pc' = "done"
  /\ UNCHANGED <<request, cropped_images, response, calls, dicts, tables, raw_texts, parser, idx, filtered_texts, result, validation_error,
                 data, standalone_dates, standalone_names, arg>>

\* self._extract_gender(text)
CallExtractGender ==
  /\ parser = "gender" /\ pc = "start"
  /\ out' = ExtractGender(raw_texts[1])
  /\ pc' = "done"
  /\ UNCHANGED <<request, cropped_images, response, calls, dicts, tables, raw_texts, parser, idx, filtered_texts, result, validation_error,
                 data, standalone_dates, standalone_names, arg>>

UnitNext ==
  \/ CallExtractDates
  \/ CallNormalizeText
  \/ CallValidateResult
  \/ CallIsMeaningful
  \/ CallExtractIdentityNumber
  \/ CallExtractGender

SpecUnit == UnitInit /\ [][UnitNext]_vars

\* ------------------------------------------------------------------------
\* Calls of CNICParser.parse (on the singleton) and of parse_cnic_fields
\* running concurrently: each step of a call is atomic, steps of different
\* calls interleave
\* ------------------------------------------------------------------------

Callers == 1..MaxCalls

\* the local variables of a call that has not started
NewCall(kind, texts) ==
  [parser |-> kind, raw_texts |-> texts, pc |-> "idle", idx |-> 0,
   filtered_texts |-> <<>>, validation_error |-> None,
   standalone_dates |-> <<>>, standalone_names |-> <<>>]

ConcurrentInit ==
  /\ calls \in [Callers -> {NewCall(kind, texts) :
                             kind \in {"strict", "lenient"}, texts \in ConcurrentInputs}]
  /\ dicts = [c \in Callers |-> EmptyRecord]
  /\ tables = ParserTables
  /\ NoRequest
  /\ raw_texts = <<>>
  /\ parser = "concurrent"
  /\ arg = EmptyRecord
  /\ pc = "start"
  /\ idx = 0
  /\ filtered_texts = <<>>
  /\ result = EmptyRecord
  /\ validation_error = None
  /\ data = EmptyRecord
  /\ standalone_dates = <<>>
  /\ standalone_names = <<>>
  /\ out = None

\* the variables of the other specifications
single == <<raw_texts, parser, pc, idx, filtered_texts, result, validation_error,
            data, standalone_dates, standalone_names, arg, out,
            request, cropped_images, response>>

\* one dict kept on the singleton and filled by every call
DictOfSingleton(c) == 1

\* the dict call c fills: the one it created itself
DictOf(c) == c

\* what call c returns: its dict and its error message
Returned(c) == <<dicts[DictOf(c)], calls[c].validation_error>>

\* result = {...} of parse, data = {...} of parse_cnic_fields
CallEnter(c) ==
  /\ calls[c].pc = "idle"
  /\ dicts' = [dicts EXCEPT ![DictOf(c)] = EmptyRecord]
  /\ calls' = [calls EXCEPT ![c].pc = "start"]
  /\ UNCHANGED <<tables, single>>

\* cleaned_texts and filtered_texts
CallStrictFilter(c) ==
  /\ calls[c].parser = "strict" /\ calls[c].pc = "start"
  /\ calls' = [calls EXCEPT ![c].filtered_texts = FilteredTexts(calls[c].raw_texts),
                            ![c].pc = "first_pass"]
  /\ UNCHANGED <<dicts, tables, single>>

\* one iteration of the first pass
CallStrictLoop(c) ==
  /\ calls[c].parser = "strict" /\ calls[c].pc = "first_pass"
  /\ calls[c].idx < Len(calls[c].filtered_texts)
  /\ dicts' = [dicts EXCEPT ![DictOf(c)] =
                 StrictRegion(dicts[DictOf(c)], calls[c].filtered_texts[calls[c].idx + 1])]
  /\ calls' = [calls EXCEPT ![c].idx = calls[c].idx + 1]
  /\ UNCHANGED <<tables, single>>

\* the second pass, _clean_result and _validate_result
CallStrictValidate(c) ==
  /\ calls[c].parser = "strict" /\ calls[c].pc = "first_pass"
  /\ calls[c].idx = Len(calls[c].filtered_texts)
  /\ dicts' = [dicts EXCEPT ![DictOf(c)] =
                 StrictFinish(calls[c].filtered_texts, dicts[DictOf(c)])]
  /\ calls' = [calls EXCEPT ![c].validation_error = ValidateResult(dicts'[DictOf(c)]),
                            ![c].pc = "done"]
  /\ UNCHANGED <<tables, single>>

\* one iteration of the loop over raw_texts
CallLenientLoop(c) ==
  /\ calls[c].parser = "lenient" /\ calls[c].pc = "start"
  /\ calls[c].idx < Len(calls[c].raw_texts)
  /\ LET Assigned(st) ==
           /\ dicts' = [dicts EXCEPT ![DictOf(c)] = st.data]
           /\ calls' = [calls EXCEPT ![c].standalone_dates = st.standalone_dates,
                                     ![c].standalone_names = st.standalone_names,
                                     ![c].idx = calls[c].idx + 1]
     IN Assigned(LenientRegion([data |-> dicts[DictOf(c)],
                                standalone_dates |-> calls[c].standalone_dates,
                                standalone_names |-> calls[c].standalone_names],
                               calls[c].raw_texts[calls[c].idx + 1]))
  /\ UNCHANGED <<tables, single>>

\* _extract_missing_from_combined
CallLenientCombined(c) ==
  /\ calls[c].parser = "lenient" /\ calls[c].pc = "start"
  /\ calls[c].idx = Len(calls[c].raw_texts)
  /\ dicts' = [dicts EXCEPT ![DictOf(c)] =
                 ExtractMissingFromCombined(dicts[DictOf(c)], Join(" ", calls[c].raw_texts))]
  /\ calls' = [calls EXCEPT ![c].pc = "combined"]
  /\ UNCHANGED <<tables, single>>

\* _match_standalone_values and the return
CallLenientStandalone(c) ==
  /\ calls[c].parser = "lenient" /\ calls[c].pc = "combined"
  /\ dicts' = [dicts EXCEPT ![DictOf(c)] =
                 MatchStandaloneValues(dicts[DictOf(c)], calls[c].raw_texts,
                                       calls[c].standalone_dates,
                                       calls[c].standalone_names, 1)]
  /\ calls' = [calls EXCEPT ![c].pc = "done"]
  /\ UNCHANGED <<tables, single>>

ConcurrentNext ==
  \E c \in Callers :
    \/ CallEnter(c)
    \/ CallStrictFilter(c)
    \/ CallStrictLoop(c)
    \/ CallStrictValidate(c)
    \/ CallLenientLoop(c)
    \/ CallLenientCombined(c)
    \/ CallLenientStandalone(c)

SpecConcurrent == ConcurrentInit /\ [][ConcurrentNext]_vars

\* ------------------------------------------------------------------------
\* The endpoints /extract (extract_cnic) and /extract-json
\* (extract_cnic_json), with the detector and the OCR engine loaded. The
\* detection threshold echoed in detection_info is left out.
\* ------------------------------------------------------------------------

\* Optional[...] fields of the response models: <<>> for null, <<v>> for v
Null == <<>>
Some(v) == <<v>>

\* ocr_service.extract_texts_batch(cropped_images)
RECURSIVE ExtractTextsBatch(_)
ExtractTextsBatch(images) ==
  IF images = <<>> THEN <<>>
  ELSE <<IF images[1] # "" THEN images[1] ELSE "No text detected">>
         \o ExtractTextsBatch(Tail(images))

EndpointInit ==
  /\ request \in [endpoint : {"extract", "extract_json"}, parse : BOOLEAN,
                   file : {"image", "undecodable"}]
  /\ request.endpoint = "extract_json" => request.parse
  /\ cropped_images \in EndpointImages
  /\ response = None
  /\ NoCalls
  /\ raw_texts = <<>>
  /\ parser = "none"
  /\ arg = EmptyRecord
  /\ pc = "received"
  /\ idx = 0
  /\ filtered_texts = <<>>
  /\ result = EmptyRecord
  /\ validation_error = None
  /\ data = EmptyRecord
  /\ standalone_dates = <<>>
  /\ standalone_names = <<>>
  /\ out = None

\* read_image_from_upload raises ValueError: HTTPException(400)
ExtractRaise ==
  /\ pc = "received" /\ request.file = "undecodable"
  /\ response' = [status_code |-> 400,
                  detail |-> "Could not decode image. Ensure it is a valid image file."]
  /\ pc' = "raised"
  /\ UNCHANGED <<request, cropped_images, calls, dicts, tables, raw_texts, parser,
                 idx, filtered_texts, result, validation_error, data,
                 standalone_dates, standalone_names, arg, out>>

\* extract_cnic: if not cropped_images
ExtractNoRegions ==
  /\ pc = "received" /\ request.file = "image" /\ request.endpoint = "extract"
  /\ cropped_images = <<>>
  /\ response' =
       [success |-> FALSE,
        message |-> "No text regions detected in the image. Ensure the image contains a clear CNIC.",
        data |-> Null, raw_texts |-> <<>>,
        detection_info |-> Some([total_regions_detected |-> 0])]
  /\ pc' = "returned"
  /\ UNCHANGED <<request, cropped_images, calls, dicts, tables, raw_texts, parser,
                 idx, filtered_texts, result, validation_error, data,
                 standalone_dates, standalone_names, arg, out>>

\* extract_cnic: the OCR of the regions; with parse the call of
\* parse_cnic_fields starts, without it the raw texts are returned
ExtractOcr ==
  /\ pc = "received" /\ request.file = "image" /\ request.endpoint = "extract"
  /\ cropped_images # <<>>
  /\ raw_texts' = ExtractTextsBatch(cropped_images)
  /\ IF request.parse
     THEN /\ parser' = "lenient"
          /\ pc' = "start"
          /\ UNCHANGED response
     ELSE /\ response' =
               [success |-> TRUE,
                message |-> "Raw OCR text extracted (parsing disabled).",
                data |-> Null, raw_texts |-> raw_texts',
                detection_info |->
                  Some([total_regions_detected |-> Len(cropped_images)])]
          /\ pc' = "returned"
          /\ UNCHANGED parser
  /\ UNCHANGED <<request, cropped_images, calls, dicts, tables,
                 idx, filtered_texts, result, validation_error, data,
                 standalone_dates, standalone_names, arg, out>>

\* the ExtractionResponse of extract_cnic, success only with a field set
ParsedResponseRejectingEmpty(cnic_data, texts, total) ==
  [success |-> \E f \in FieldSet : ~Falsy(cnic_data[f]),
   message |-> "CNIC data extracted successfully.",
   data |-> Some(cnic_data), raw_texts |-> texts,
   detection_info |-> Some([total_regions_detected |-> total])]

\* the ExtractionResponse extract_cnic returns after parsing
ParsedResponse(cnic_data, texts, total) ==
  [success |-> TRUE, message |-> "CNIC data extracted successfully.",
   data |-> Some(cnic_data), raw_texts |-> texts,
   detection_info |-> Some([total_regions_detected |-> total])]

\* extract_cnic: the response after parse_cnic_fields has returned
ExtractRespond ==
  /\ parser = "lenient" /\ pc = "done"
  /\ request.endpoint = "extract"
  /\ response' = ParsedResponse(data, raw_texts, Len(cropped_images))
  /\ pc' = "returned"
  /\ UNCHANGED <<request, cropped_images, calls, dicts, tables, raw_texts, parser,
                 idx, filtered_texts, result, validation_error, data,
                 standalone_dates, standalone_names, arg, out>>

\* extract_cnic_json: if not cropped_images
ExtractJsonNoRegions ==
  /\ pc = "received" /\ request.file = "image" /\ request.endpoint = "extract_json"
  /\ cropped_images = <<>>
  /\ response' =
       [success |-> FALSE,
        message |-> "No text regions detected. Ensure the image contains a clear CNIC.",
        data |-> Null]
  /\ pc' = "returned"
  /\ UNCHANGED <<request, cropped_images, calls, dicts, tables, raw_texts, parser,
                 idx, filtered_texts, result, validation_error, data,
                 standalone_dates, standalone_names, arg, out>>

\* extract_cnic_json: the OCR of the regions; the call of cnic_parser.parse
\* starts
ExtractJsonOcr ==
  /\ pc = "received" /\ request.file = "image" /\ request.endpoint = "extract_json"
  /\ cropped_images # <<>>
  /\ raw_texts' = ExtractTextsBatch(cropped_images)
  /\ parser' = "strict"
  /\ pc' = "start"
  /\ UNCHANGED <<request, cropped_images, response, calls, dicts, tables,
                 idx, filtered_texts, result, validation_error, data,
                 standalone_dates, standalone_names, arg, out>>

\* the CleanExtractionResponse of extract_cnic_json, the record kept beside
\* the diagnostic
CleanResponseKeepingData(parsed_data, error) ==
  IF ~Falsy(error)
  THEN [success |-> FALSE, message |-> error, data |-> Some(parsed_data)]
  ELSE [success |-> TRUE, message |-> "CNIC data extracted successfully.",
        data |-> Some(parsed_data)]

\* the CleanExtractionResponse extract_cnic_json returns after parsing
CleanResponse(parsed_data, error) ==
  IF ~Falsy(error)
  THEN [success |-> FALSE, message |-> error, data |-> Null]
  ELSE [success |-> TRUE, message |-> "CNIC data extracted successfully.",
        data |-> Some(parsed_data)]

\* extract_cnic_json: the response after cnic_parser.parse has returned
ExtractJsonRespond ==
  /\ parser = "strict" /\ pc = "done"
  /\ request.endpoint = "extract_json"
  /\ response' = CleanResponse(result, validation_error)
  /\ pc' = "returned"
  /\ UNCHANGED <<request, cropped_images, calls, dicts, tables, raw_texts, parser,
                 idx, filtered_texts, result, validation_error, data,
                 standalone_dates, standalone_names, arg, out>>

EndpointNext ==
  \/ ExtractRaise
  \/ ExtractNoRegions
  \/ ExtractOcr
  \/ LenientLoop
  \/ LenientCombined
  \/ LenientStandalone
  \/ ExtractRespond
  \/ ExtractJsonNoRegions
  \/ ExtractJsonOcr
  \/ StrictFilter
  \/ StrictLoop
  \/ StrictValidate
  \/ ExtractJsonRespond

SpecEndpoint == EndpointInit /\ [][EndpointNext]_vars

\* ------------------------------------------------------------------------
\* Properties
\* ------------------------------------------------------------------------

\* a date token: DD sep MM sep YYYY with sep one of . - /
IsDateToken(t) == Len(t) = 10 /\ DateAt(t, 0)

\* the field a keyword token names, None for any other token
KeywordField(t) ==
  CASE Lower(t) = "birth" -> "date_of_birth"
    [] Lower(t) = "issue" -> "date_of_issue"
    [] Lower(t) = "expiry" -> "date_of_expiry"
    [] OTHER -> None

\* the date token with its separators turned into slashes
Slashed(t) == Slice(t, 0, 2) \o "/" \o Slice(t, 3, 5) \o "/" \o From(t, 6)

\* Nearest-following-date matching over the tokens of a line, from token n
\* on: each keyword whose field is unset takes, in left-to-right order, the
\* first date token after it that no keyword has taken yet; used holds the
\* indices of the date tokens taken.
RECURSIVE MatchedByOccurrence(_, _, _, _)
MatchedByOccurrence(tokens, n, used, rec) ==
  IF n > Len(tokens) THEN rec
  ELSE LET f == KeywordField(tokens[n])
           free == {m \in (n + 1)..Len(tokens) : IsDateToken(tokens[m]) /\ m \notin used}
       IN IF f = None \/ ~Falsy(rec[f]) \/ free = {}
          THEN MatchedByOccurrence(tokens, n + 1, used, rec)
          ELSE MatchedByOccurrence(tokens, n + 1, used \cup {Min(free)},
                                   [rec EXCEPT ![f] = Slashed(tokens[Min(free)])])

\* the record nearest-following-date matching makes of rec on a line
NearestFollowingDates(text, rec) == MatchedByOccurrence(Split(text), 1, {}, rec)

\* a line with several date keywords and several date tokens
IsMergedLine(text) ==
  /\ Cardinality({n \in 1..Len(Split(text)) : KeywordField(Split(text)[n]) # None}) >= 2
  /\ Cardinality({n \in 1..Len(Split(text)) : IsDateToken(Split(text)[n])}) >= 2

\* C1: on every line with several date keywords and several date tokens,
\* _extract_dates gives each keyword whose field is unset, in left-to-right
\* order, the first date token after it that is not consumed yet, token
\* occurrence by token occurrence, also when the separators differ or two
\* tokens have the same value.
C1_DatesMatchedByOccurrence ==
  (parser = "dates" /\ pc = "done" /\ IsMergedLine(raw_texts[1]))
    => result = NearestFollowingDates(raw_texts[1], arg)

\* C1: a call of _extract_dates on a line whose two tokens differ in their
\* separators has returned
C1_MixedSeparatorsCalled ==
  /\ parser = "dates" /\ pc = "done"
  /\ raw_texts = << "Birth 02-02-2010 Issue 01.01.2000" >>
  /\ arg = EmptyRecord

\* C2: for a single region that merges several date keywords and several
\* date tokens, the record parse_cnic_fields returns holds, for each
\* keyword, the first date after it, consumed in left-to-right keyword
\* order, no token occurrence in two fields and a keyword without an
\* unconsumed following date left unset; the sample line gives
\* date_of_birth 24/08/1972, date_of_expiry 22/01/2021, date_of_issue
\* 22/01/2014 and identity_number 16202-0883647-3.
C2_MergedLineDatesUsedOnce ==
  (parser = "lenient" /\ pc = "done" /\ Len(raw_texts) = 1 /\ IsMergedLine(raw_texts[1]))
    => /\ \A n \in 1..Len(date_fields) :
            data[date_fields[n]]
              = NearestFollowingDates(raw_texts[1], EmptyRecord)[date_fields[n]]
       /\ raw_texts[1] = SampleLine =>
            /\ data["date_of_birth"] = "24/08/1972"
            /\ data["date_of_expiry"] = "22/01/2021"
            /\ data["date_of_issue"] = "22/01/2014"
            /\ data["identity_number"] = "16202-0883647-3"

\* C2: parse_cnic_fields has returned for a line whose second keyword has
\* no unconsumed date after it
C2_KeywordWithoutDateParsed ==
  /\ parser = "lenient" /\ pc = "done"
  /\ raw_texts = << "01.01.2000 Birth Issue 02-02-2010" >>

\* C3: in CNICParser.parse no step changes a field of the result that is
\* already non-empty, so the earlier of two matching regions decides.
C3_FirstWriterWins ==
  [][parser = "strict" =>
       \A f \in FieldSet : ~Falsy(result[f]) => result'[f] = result[f]]_vars

\* C3: the first pass has processed a second region that matches, with
\* other values, the fields the first region set
C3_LaterRegionMatched ==
  /\ parser = "strict" /\ pc = "first_pass" /\ idx = 2
  /\ filtered_texts[1] = "Gender M 11111-2222222-3 Date of Birth 01.01.2000"
  /\ filtered_texts[2] = "Gender F 44444-5555555-6 Date of Birth 02.02.2002"
  /\ result["gender"] = "Male"
  /\ result["identity_number"] = "11111-2222222-3"
  /\ result["date_of_birth"] = "01/01/2000"

\* the identity number a region contains, dashes added to a run of 13
\* digits, None when it contains none
IdentityNumberIn(text) ==
  IF SearchStart(IdentityDashedMatches(text)) >= 0
  THEN SearchGroup(IdentityDashedMatches(text), text)
  ELSE IF SearchStart(Digits13Matches(text)) >= 0
  THEN DashedForm(SearchGroup(Digits13Matches(text), text))
  ELSE None

\* the identity number of the first text that contains one, None when no
\* text does
RECURSIVE FirstIdentityNumber(_)
FirstIdentityNumber(texts) ==
  IF texts = <<>> THEN None
  ELSE IF IdentityNumberIn(texts[1]) # None THEN IdentityNumberIn(texts[1])
  ELSE FirstIdentityNumber(Tail(texts))

\* C4: in parse_cnic_fields the identity number is that of the first
\* region, in list order, that contains one; no later region overwrites it.
C4_IdentityFirstRegionWins ==
  (parser = "lenient" /\ FirstIdentityNumber(SubSeq(raw_texts, 1, idx)) # None)
    => data["identity_number"] = FirstIdentityNumber(SubSeq(raw_texts, 1, idx))

\* C4: the loop has processed two regions with different identity numbers
C4_TwoIdentityRegions ==
  /\ parser = "lenient" /\ idx = 2
  /\ raw_texts[1] = "Gender M 11111-2222222-3 Date of Birth 01.01.2000"
  /\ raw_texts[2] = "Gender F 44444-5555555-6 Date of Birth 02.02.2002"

\* C5: the string _normalize_text returns has the misspellings 'lssue'
\* and 'fathet' replaced in whatever case they are written, its runs of
\* whitespace collapsed to single spaces and its edges trimmed.
C5_NormalizeTextCorrectsTypos ==
  (parser = "normalize" /\ pc = "done")
    => /\ ~Contains(Lower(out), "lssue")
       /\ ~Contains(Lower(out), "fathet")
       /\ ~Contains(out, "  ")
       /\ Strip(out) = out

\* C5: _normalize_text has returned for a text with a misspelt keyword
C5_MisspeltKeywordNormalized ==
  /\ parser = "normalize" /\ pc = "done"
  /\ raw_texts = << "Date of lssue 22.01.2014" >>

\* C6: parse_cnic_fields makes name 'X Y' of the region 'Name X Y' and
\* father_name 'Z W' of the region 'Fathet Name Z Or W', whichever of the
\* two regions comes first.
C6_NameAndFatherWithTypo ==
  (parser = "lenient" /\ pc = "done") =>
    \A x, y, z, w \in NameTokens :
      raw_texts \in {<<NameLine(x, y), FathetLine(z, w)>>,
                     <<FathetLine(z, w), NameLine(x, y)>>}
        => /\ data["name"] = x \o " " \o y
           /\ data["father_name"] = z \o " " \o w

\* C6: the sample regions, father region first, have been parsed
C6_SamplePairParsed ==
  /\ parser = "lenient" /\ pc = "done"
  /\ raw_texts = << "Fathet Name Khali Or Rahman", "Name Jamil Ahmad" >>
  /\ data["name"] = "Jamil Ahmad"
  /\ data["father_name"] = "Khali Rahman"

\* the days of month m of year y in the Gregorian calendar
CalendarDays(y, m) ==
  CASE m \in {1, 3, 5, 7, 8, 10, 12} -> 31
    [] m \in {4, 6, 9, 11} -> 30
    [] m = 2 /\ (y % 400 = 0 \/ (y % 4 = 0 /\ y % 100 # 0)) -> 29
    [] OTHER -> 28

\* d is DD/MM/YYYY and denotes a day of the calendar in 1900..2100
RealCalendarDate(d) ==
  /\ Len(d) = 10
  /\ \A i \in {0, 1, 3, 4, 6, 7, 8, 9} : Ch(d, i) \in DigitSet
  /\ Ch(d, 2) = "/" /\ Ch(d, 5) = "/"
  /\ ToInt(From(d, 6)) \in 1900..2100
  /\ ToInt(Slice(d, 3, 5)) \in 1..12
  /\ ToInt(Slice(d, 0, 2)) \in 1..CalendarDays(ToInt(From(d, 6)), ToInt(Slice(d, 3, 5)))

\* v is five digits, a dash, seven digits, a dash and a digit
IdentityForm(v) ==
  /\ Len(v) = 15
  /\ \A i \in (0..14) \ {5, 13} : Ch(v, i) \in DigitSet
  /\ Ch(v, 5) = "-" /\ Ch(v, 13) = "-"

\* every field of rec is non-empty
AllPresent(rec) == \A f \in FieldSet : rec[f] # None /\ Strip(rec[f]) # ""

\* C7: CNICParser.parse returns no error exactly when the eight fields of
\* the record are non-empty, the three dates are DD/MM/YYYY days of the
\* calendar with a year in 1900..2100 and the country passes the country
\* check; a record returned without error has an identity number of the
\* form 5 digits-7 digits-1 digit and the gender 'Male' or 'Female'.
C7_StrictValidationOutcome ==
  (parser = "strict" /\ pc = "done") =>
    /\ (validation_error = None) <=>
         /\ AllPresent(result)
         /\ \A n \in 1..Len(date_fields) : RealCalendarDate(result[date_fields[n]])
         /\ IsValidCountry(result["country_of_stay"])
    /\ validation_error = None =>
         /\ IdentityForm(result["identity_number"])
         /\ result["gender"] \in {"Male", "Female"}

\* C7: parse has returned, without error, a record whose date of issue is
\* the last day the validator accepts
C7_ValidCardReturned ==
  /\ parser = "strict" /\ pc = "done"
  /\ validation_error = None
  /\ result["date_of_issue"] = "31/12/2100"
  /\ result["date_of_expiry"] = "01/01/2000"

\* the human-readable name of each field
ReadableName ==
  [name |-> "Name", father_name |-> "Father Name", gender |-> "Gender",
   country_of_stay |-> "Country Of Stay", identity_number |-> "Identity Number",
   date_of_birth |-> "Date Of Birth", date_of_issue |-> "Date Of Issue",
   date_of_expiry |-> "Date Of Expiry"]

\* the readable names of the empty fields of rec, from field number n on,
\* each but the first preceded by a comma and a space; sep is "" until a
\* name has been written
RECURSIVE EmptyFieldNames(_, _, _)
EmptyFieldNames(rec, n, sep) ==
  IF n > Len(Fields) THEN ""
  ELSE IF rec[Fields[n]] = None \/ Strip(rec[Fields[n]]) = ""
  THEN sep \o ReadableName[Fields[n]] \o EmptyFieldNames(rec, n + 1, ", ")
  ELSE EmptyFieldNames(rec, n + 1, sep)

\* C8: when at least one field is empty, _validate_result returns one
\* diagnostic that lists all the empty fields and only them, by readable
\* name, in the order name, father_name, gender, country_of_stay,
\* identity_number, date_of_birth, date_of_issue, date_of_expiry, and no
\* date or country diagnostic, even with an invalid date or country.
C8_PresenceCheckListsAllMissing ==
  (parser = "validate" /\ pc = "done" /\ ~AllPresent(arg)) =>
    validation_error
      = "Image quality is poor. Could not detect: " \o EmptyFieldNames(arg, 1, "")
          \o ". Please provide a clearer image."

\* C8: _validate_result has returned for a record with two fields missing
\* and an invalid date and an invalid country present
C8_MissingAndInvalid ==
  /\ parser = "validate" /\ pc = "done"
  /\ arg["name"] = None /\ arg["date_of_issue"] = None
  /\ \A f \in FieldSet \ {"name", "date_of_issue"} : arg[f] # None
  /\ arg["date_of_birth"] = "31/02/2000" /\ arg["country_of_stay"] = "Gender"
  /\ validation_error =
       "Image quality is poor. Could not detect: Name, Date Of Issue. Please provide a clearer image."

\* the date fields of rec, in the order birth, issue, expiry, that are not
\* days of the calendar in 1900..2100
UnrealDates(rec) == {n \in 1..Len(date_fields) : ~RealCalendarDate(rec[date_fields[n]])}

\* C9: with the eight fields present, _validate_result names the first
\* invalid date in the order date_of_birth, date_of_issue, date_of_expiry
\* and nothing else; it returns the diagnostic that quotes the country
\* only when the three dates are valid and the country check fails.
C9_FirstInvalidDateReported ==
  (parser = "validate" /\ pc = "done" /\ AllPresent(arg)) =>
    /\ UnrealDates(arg) # {} =>
         validation_error =
           "Image quality is poor. " \o ReadableName[date_fields[Min(UnrealDates(arg))]]
             \o " is incomplete or invalid. Please provide a clearer image."
    /\ (UnrealDates(arg) = {} /\ ~IsValidCountry(arg["country_of_stay"])) <=>
         validation_error =
           "Image quality is poor. Country '" \o arg["country_of_stay"]
             \o "' appears invalid. Please provide a clearer image."

\* C9: _validate_result has returned for a complete record whose date of
\* issue, date of expiry and country are all invalid
C9_SeveralInvalid ==
  /\ parser = "validate" /\ pc = "done" /\ AllPresent(arg)
  /\ arg["date_of_birth"] = "24/08/1972"
  /\ arg["date_of_issue"] = "32/01/2014"
  /\ arg["date_of_expiry"] = "01/01/2101"
  /\ arg["country_of_stay"] = "Gender"
  /\ validation_error =
       "Image quality is poor. Date Of Issue is incomplete or invalid. Please provide a clearer image."

\* C10: for the empty list of regions parse_cnic_fields returns a record
\* with the eight fields unset, and CNICParser.parse returns such a record
\* with a diagnostic that reports the eight fields as missing.
C10_EmptyInput ==
  (raw_texts = <<>> /\ pc = "done") =>
    /\ parser = "lenient" => \A f \in FieldSet : data[f] = None
    /\ parser = "strict" =>
         /\ \A f \in FieldSet : result[f] = None
         /\ validation_error =
              "Image quality is poor. Could not detect: Name, Father Name, Gender, "
                \o "Country Of Stay, Identity Number, Date Of Birth, Date Of Issue, "
                \o "Date Of Expiry. Please provide a clearer image."

\* C10: CNICParser.parse has returned for the empty list
C10_EmptyListParsed ==
  /\ raw_texts = <<>> /\ parser = "strict" /\ pc = "done"
  /\ validation_error # None

\* the words that label the fields of a card
FieldLabelWords ==
  {"gender", "name", "father", "date", "country", "stay", "birth", "issue",
   "expiry", "number"}

\* label words as the OCR engine garbles them
GarbledLabelWords == {"gende"}

\* C11: for a record that is otherwise complete and valid, _validate_result
\* returns the country diagnostic whenever country_of_stay is a label word
\* or a garbled label word such as 'Gende'.
C11_LabelWordCountryRejected ==
  (/\ parser = "validate" /\ pc = "done" /\ AllPresent(arg)
   /\ UnrealDates(arg) = {}
   /\ Lower(arg["country_of_stay"]) \in FieldLabelWords \cup GarbledLabelWords)
    => validation_error =
         "Image quality is poor. Country '" \o arg["country_of_stay"]
           \o "' appears invalid. Please provide a clearer image."

\* C11: _validate_result has returned for a complete record with valid
\* dates and the country 'Gende'
C11_GendeValidated ==
  /\ parser = "validate" /\ pc = "done" /\ AllPresent(arg)
  /\ UnrealDates(arg) = {}
  /\ arg["country_of_stay"] = "Gende"


\* the phrases printed on every card as its header and footer
HeaderPhrases ==
  {"pakistan national identity card", "islamic republic of pakistan",
   "holder's signature", "national identity card", "pakistan national identity",
   "national identity"}

SlashedDate(v) ==
  /\ Len(v) = 10
  /\ \A i \in (0..9) \ {2, 5} : Ch(v, i) \in DigitSet
  /\ Ch(v, 2) = "/" /\ Ch(v, 5) = "/"

\* C13: at every step of CNICParser.parse and of parse_cnic_fields, every
\* date field that is set is a DD/MM/YYYY string with slashes.
C13_SetDatesAreSlashed ==
  \A f \in {"date_of_birth", "date_of_issue", "date_of_expiry"} :
    /\ ~Falsy(result[f]) => SlashedDate(result[f])
    /\ ~Falsy(data[f]) => SlashedDate(data[f])

\* C13: parse_cnic_fields has returned a date of birth that only the
\* standalone-window pass could set
C13_WindowPassSetDate ==
  /\ parser = "lenient" /\ pc = "done"
  /\ raw_texts = <<"Date of Birth", "16202-0883647-3", "22/01/2021">>
  /\ data["date_of_birth"] = "22/01/2021"

\* the 13 digits of the number grouped 5-7-1 that starts at offset i of text
\* with separators a and b at its group boundaries, None when there is none:
\* a number is a whole run of digits, so no digit adjoins it
GroupedNumberAt(text, i, a, b) ==
  LET j == i + 5 + Len(a)
      k == j + 7 + Len(b)
      AllDigits(lo, hi) == \A n \in lo..(hi - 1) : Ch(text, n) \in DigitSet
  IN IF /\ AllDigits(i, i + 5) /\ Slice(text, i + 5, j) = a
        /\ AllDigits(j, j + 7) /\ Slice(text, j + 7, k) = b
        /\ Ch(text, k) \in DigitSet
        /\ Ch(text, i - 1) \notin DigitSet /\ Ch(text, k + 1) \notin DigitSet
     THEN Slice(text, i, i + 5) \o Slice(text, j, j + 7) \o Ch(text, k)
     ELSE None

\* the 13-digit numbers grouped 5-7-1 that text contains, each boundary
\* carrying a dash, a space or nothing
GroupedNumbers(text) ==
  {GroupedNumberAt(text, i, a, b) :
     i \in 0..Len(text), a \in {"", "-", " "}, b \in {"", "-", " "}} \ {None}

\* C14: _extract_identity_number returns the dashed form of the 13-digit
\* number grouped 5-7-1 that its text contains, None when the text contains
\* none, and never a value of another shape.
C14_IdentityCanonical ==
  (parser = "identity" /\ pc = "done") =>
    /\ GroupedNumbers(raw_texts[1]) = {} => out = None
    /\ GroupedNumbers(raw_texts[1]) # {} =>
         \E d \in GroupedNumbers(raw_texts[1]) :
           out = Slice(d, 0, 5) \o "-" \o Slice(d, 5, 12) \o "-" \o Ch(d, 12)
    /\ out = None \/ IdentityForm(out)

\* C14: _extract_identity_number has returned for a text whose number
\* follows its label without a space
C14_NumberAfterLetters ==
  /\ parser = "identity" /\ pc = "done"
  /\ raw_texts[1] = "No16202-0883647-3"

\* the keywords that mark a region as a label
ReservedKeywords ==
  {"father", "name", "gender", "date", "identity", "birth", "issue", "expiry",
   "country"}

\* text is two to four alphabetic words, 5 to 40 characters long, and carries
\* no reserved keyword
NameShaped(text) ==
  /\ Len(Split(text)) \in 2..4
  /\ \A n \in 1..Len(Split(text)) : IsAlpha(Split(text)[n])
  /\ Len(Strip(text)) \in 5..40
  /\ \A kw \in ReservedKeywords : ~Contains(Lower(text), kw)

\* the name-shaped texts of a list, title-cased, in list order
RECURSIVE UnlabelledNames(_)
UnlabelledNames(texts) ==
  IF texts = <<>> THEN <<>>
  ELSE (IF NameShaped(texts[1]) THEN <<Title(Strip(texts[1]))>> ELSE <<>>)
         \o UnlabelledNames(Tail(texts))

HasWord(text, w) == \E n \in 1..Len(Split(text)) : Lower(Split(text)[n]) = w

\* C16: for a text with the gender keyword or its variant 'gende',
\* _extract_gender returns 'Male' for a standalone M or the word 'male' and
\* 'Female' for a standalone F or the word 'female'; a text without the
\* keyword that is not a bare M or F gives None.
C16_LabelledGender ==
  (parser = "gender" /\ pc = "done") =>
    LET text == raw_texts[1]
        labelled == Contains(Lower(text), "gende")
        male == HasWord(text, "m") \/ HasWord(text, "male")
        female == HasWord(text, "f") \/ HasWord(text, "female")
    IN /\ (labelled /\ male /\ ~female) => out = "Male"
       /\ (labelled /\ female /\ ~male) => out = "Female"
       /\ (~labelled /\ Lower(Strip(text)) \notin {"m", "f"}) => out = None

\* C16: _extract_gender has returned for 'Gender Female'
C16_GenderFemaleCalled ==
  /\ parser = "gender" /\ pc = "done"
  /\ raw_texts[1] = "Gender Female"

\* text is a bare M or F, blanks around it allowed
BareGender(text) == Upper(Strip(text)) \in {"M", "F"}

\* text carries the gender label and a standalone M or F
LabelledGender(text) ==
  /\ Contains(Lower(text), "gende")
  /\ HasWord(text, "m") \/ HasWord(text, "f")

\* C17: when a region of the input is a bare M or F and no earlier region
\* carries a labelled gender, CNICParser.parse returns the gender 'Male' or
\* 'Female' of the first such region.
C17_BareGenderFallback ==
  (parser = "strict" /\ pc = "done") =>
    \A n \in 1..Len(raw_texts) :
      (/\ BareGender(raw_texts[n])
       /\ \A m \in 1..(n - 1) :
            ~BareGender(raw_texts[m]) /\ ~LabelledGender(raw_texts[m]))
        => result["gender"] =
             (IF Upper(Strip(raw_texts[n])) = "M" THEN "Male" ELSE "Female")

\* C17: CNICParser.parse has returned for the gender label followed by a
\* region that is a bare M
C17_BareRegionParsed ==
  /\ parser = "strict" /\ pc = "done"
  /\ raw_texts = <<"Gender", "M">>

\* C18: however the steps of concurrent calls of CNICParser.parse and
\* parse_cnic_fields interleave, each call returns what a call alone returns
\* for its list, and no step changes the tables of the parser or the list
\* of a call.
C18_CallsIndependent ==
  /\ [](\A c \in Callers :
          calls[c].pc = "done" =>
            Returned(c) = (IF calls[c].parser = "strict"
                           THEN Parse(calls[c].raw_texts)
                           ELSE <<ParseCnicFields(calls[c].raw_texts), None>>))
  /\ [][/\ tables' = tables
         /\ \A c \in Callers : calls'[c].raw_texts = calls[c].raw_texts]_vars

\* C18: two calls of CNICParser.parse on the same list are both half way
\* through their first pass
C18_TwoCallsInFlight ==
  /\ parser = "concurrent"
  /\ calls[1].parser = "strict" /\ calls[2].parser = "strict"
  /\ calls[1].raw_texts = calls[2].raw_texts
  /\ calls[1].pc = "first_pass" /\ calls[1].idx = 1
  /\ calls[2].pc = "first_pass" /\ calls[2].idx = 1
  /\ dicts[1]["name"] = "Jamil Ahmad" /\ dicts[2]["name"] = "Jamil Ahmad"

C21_FallbackPassesOnlyFillGaps ==
  [][/\ (parser = "lenient" /\ pc' # pc) =>
          \A f \in FieldSet : ~Falsy(data[f]) => data'[f] = data[f]
     /\ (parser = "strict" /\ pc = "first_pass" /\ pc' = "done") =>
          \A f \in {"name", "father_name"} :
            ~Falsy(result[f]) => result'[f] = result[f]]_vars

\* C21: CNICParser.parse has returned the labelled name for a list with two
\* unlabelled names after it, the fallback having filled father_name
C21_LabelledNameKept ==
  /\ parser = "strict" /\ pc = "done"
  /\ raw_texts = <<"Name Jamil Ahmad", "KHALI RAHMAN", "Jamil Ahmad">>
  /\ result["name"] = "Jamil Ahmad"
  /\ result["father_name"] = "Khali Rahman"

\* the text, leading blanks aside, opens with the 'name' keyword
NameAtLineStart(text) == StartsAtI(Strip(text), "name", 0)

\* C22: while CNICParser.parse runs its labelled pass, a name that is set
\* comes from a region read so far that opens with the 'name' keyword and a
\* father_name that is set from one containing 'father', and neither value
\* carries the label words 'father' or 'name'.
C22_NameAttribution ==
  (parser = "strict" /\ pc = "first_pass") =>
    /\ ~Falsy(result["name"]) =>
         /\ \E n \in 1..idx : NameAtLineStart(filtered_texts[n])
         /\ ~HasWord(result["name"], "father")
         /\ ~HasWord(result["name"], "name")
    /\ ~Falsy(result["father_name"]) =>
         /\ \E n \in 1..idx : Contains(Lower(filtered_texts[n]), "father")
         /\ ~HasWord(result["father_name"], "father")
         /\ ~HasWord(result["father_name"], "name")

\* C22: the labelled pass of CNICParser.parse has read a father-name region
\* and no region that opens with the 'name' keyword
C22_FatherLineRead ==
  /\ parser = "strict" /\ pc = "first_pass" /\ idx > 0
  /\ \E n \in 1..idx : filtered_texts[n] = "Father Name Khali Rahman"
  /\ \A n \in 1..idx : ~NameAtLineStart(filtered_texts[n])
  /\ result["father_name"] = "Khali Rahman"

\* C25: for a list whose first region is a correctly labelled name or
\* father-name line with an 'Or' between two name tokens, CNICParser.parse
\* returns the two tokens without the 'Or' as the name or father_name.
C25_OrTokenRemoved ==
  (parser = "strict" /\ pc = "done" /\ Len(raw_texts) > 0) =>
    \A x \in NameTokens, y \in NameTokens :
      /\ raw_texts[1] = OrFatherLine(x, y) =>
           result["father_name"] = x \o " " \o y
      /\ raw_texts[1] = OrNameLine(x, y) =>
           result["name"] = x \o " " \o y

\* C25: CNICParser.parse has returned for 'Father Name Khali Or Rahman'
C25_OrFatherLineParsed ==
  /\ parser = "strict" /\ pc = "done"
  /\ raw_texts = <<OrFatherLine("Khali", "Rahman")>>
  /\ ~Falsy(result["father_name"])

\* offset of the first date token of text that starts after offset p, -1
\* when there is none
DateTokenAfter(text, p) ==
  LET starts == {i \in 0..Len(text) : i > p /\ DateAt(text, i)}
  IN IF starts = {} THEN -1 ELSE CHOOSE i \in starts : \A j \in starts : i <= j

\* C23: for a one-region list whose region carries exactly one of the date
\* keywords and a date token after it, parse_cnic_fields sets the keyword's
\* field to the first date token after the keyword with '/' separators.
C23_SingleKeywordDate ==
  (parser = "lenient" /\ pc = "done" /\ Len(raw_texts) = 1) =>
    LET text == Strip(raw_texts[1])
        Expected(kw) ==
          LET d == DateTokenAfter(text, Find(Lower(text), kw))
          IN Replace(Replace(Slice(text, d, d + 10), "-", "/"), ".", "/")
    IN KeywordCount(Lower(text)) = 1 =>
         \A k \in {<<"birth", "date_of_birth">>, <<"issue", "date_of_issue">>,
                    <<"expiry", "date_of_expiry">>} :
           (/\ Contains(Lower(text), k[1])
            /\ DateTokenAfter(text, Find(Lower(text), k[1])) >= 0)
             => data[k[2]] = Expected(k[1])

\* C23: parse_cnic_fields has returned for a line with an identity number
\* between its only date keyword and the date
C23_NumberBeforeDateParsed ==
  /\ parser = "lenient" /\ pc = "done"
  /\ raw_texts = <<"Identity Number Date of Birth 16202-0883647-3 24.08.1972">>
  /\ data["identity_number"] = "16202-0883647-3"

\* the regions within 2 positions of a region carrying the keyword kw that
\* are a bare date, as (keyword region, date region) index pairs
WindowCandidates(texts, kw) ==
  {c \in (1..Len(texts)) \X (1..Len(texts)) :
     /\ Contains(Lower(texts[c[1]]), kw)
     /\ c[2] >= c[1] - 2 /\ c[2] <= c[1] + 2
     /\ IsBareDate(Strip(texts[c[2]]))}

\* the lowest-index bare date of the window of the first keyword region
\* that has one, with '/' separators
WindowExpected(texts, kw) ==
  LET first == Min({c[1] : c \in WindowCandidates(texts, kw)})
      lowest == Min({c[2] : c \in {d \in WindowCandidates(texts, kw) : d[1] = first}})
  IN Replace(Replace(Strip(texts[lowest]), "-", "/"), ".", "/")

\* C24: the positional pass of parse_cnic_fields sets a date field that the
\* labelled and combined-text passes left unset to the lowest-index bare
\* date within 2 regions of a region with the field's keyword, with '/'
\* separators, and leaves the field unset when no such region exists.
C24_WindowedDateFallback ==
  [][(parser = "lenient" /\ pc = "combined" /\ pc' = "done") =>
       \A k \in {<<"birth", "date_of_birth">>, <<"issue", "date_of_issue">>,
                  <<"expiry", "date_of_expiry">>} :
         Falsy(data[k[2]]) =>
           IF WindowCandidates(raw_texts, k[1]) = {}
           THEN Falsy(data'[k[2]])
           ELSE data'[k[2]] = WindowExpected(raw_texts, k[1])]_vars

\* C24: parse_cnic_fields has returned for a birth label followed by the
\* identity number and a bare date written with dots
C24_DottedDateInWindow ==
  /\ parser = "lenient" /\ pc = "done"
  /\ raw_texts = <<"Date of Birth", "16202-0883647-3", "24.08.1972">>
  /\ data["identity_number"] = "16202-0883647-3"

\* C26: for every list on which CNICParser.parse returns no validation
\* error, parse_cnic_fields returns the same eight field values.
C26_ParsersAgreeOnSuccess ==
  (parser = "strict" /\ pc = "done" /\ validation_error = None) =>
    \A f \in FieldSet : ParseCnicFields(raw_texts)[f] = result[f]

\* C26: CNICParser.parse has returned a complete card without an error
C26_StrictSucceeded ==
  /\ parser = "strict" /\ pc = "done" /\ validation_error = None
  /\ result["country_of_stay"] = "Pakistan"
  /\ result["date_of_expiry"] = "31/12/2100"

\* C27: while and after parse_cnic_fields runs on the texts of
\* extract_texts_batch, no field of its record holds a value containing
\* the placeholder 'No text detected' in any letter case.
C27_PlaceholderNeverData ==
  parser = "lenient" =>
    \A f \in FieldSet : ~Contains(Lower(data[f]), "no text detected")

\* C27: extract_cnic has returned for an image whose regions are a bare
\* 'Father Name' label and a region without text
C27_LabelThenPlaceholder ==
  /\ pc = "returned" /\ request.endpoint = "extract" /\ request.parse
  /\ cropped_images = <<"Father Name", "">>
  /\ raw_texts = <<"Father Name", "No text detected">>
====
